---------------------------- MODULE Spec2Model ----------------------------
(***************************************************************************)
(* The ecoregion / administrative-boundary integration workflow of the     *)
(* wdbots notebooks: the boundaries notebook, which normalises, combines,  *)
(* resolves, partitions and stores the political boundaries, and the       *)
(* ecoregions notebook, which normalises, combines, dissolves, resolves,   *)
(* partitions and stores the ecoregion units, reads the intersections      *)
(* computed by the spatial store and assembles the final records.          *)
(*                                                                         *)
(* Geometry lives on a strip of unit cells 1..NumCells.  An areal geometry *)
(* is a non-empty set of cells; two cells that are neighbours share an     *)
(* edge.  A maximal run of neighbouring cells is one polygon.              *)
(* Text is a sequence of tokens (characters, or a level tag taken whole).  *)
(* An optional value is <<>> (None) or <<v>>.                              *)
(***************************************************************************)
EXTENDS Integers, Sequences, FiniteSets, Bags, TLC

(***************************************************************************)
(* Bounds of the model.                                                    *)
(***************************************************************************)
NumCells == 3
MaxRows == 3

\* the remote queries that may raise in one run
MaxErrors == 1

Cells == 1..NumCells

None == <<>>
Some(v) == <<v>>

(***************************************************************************)
(* Sequences and bags.                                                     *)
(***************************************************************************)
Range(s) == {s[i] : i \in DOMAIN s}

RECURSIVE Concat(_)
Concat(ss) ==
    IF ss = <<>> THEN <<>> ELSE Head(ss) \o Concat(Tail(ss))

SeqToBag(s) ==
    [v \in Range(s) |-> Cardinality({i \in DOMAIN s : s[i] = v})]

Distinct(b) == SetToBag(BagToSet(b))

(***************************************************************************)
(* Text.  str.split, str.title and string comparison as Python performs    *)
(* them, token by token.                                                   *)
(***************************************************************************)
LevelTags == <<"NA_L1CODE", "NA_L2CODE", "NA_L3CODE", "US_L3CODE", "US_L4CODE">>

LowerOf(t) ==
    CASE t = "A" -> "a" [] t = "B" -> "b" [] t = "C" -> "c" [] OTHER -> t

UpperOf(t) ==
    CASE t = "a" -> "A" [] t = "b" -> "B" [] t = "c" -> "C" [] OTHER -> t

IsCased(t) == t \in {"a", "b", "c", "A", "B", "C"}

\* the code point order of the tokens (a level tag compares as its text does)
TokenOrd(t) ==
    CASE t = " " -> 32 [] t = "." -> 46
      [] t = "0" -> 48 [] t = "1" -> 49 [] t = "2" -> 50 [] t = "3" -> 51
      [] t = "4" -> 52 [] t = "5" -> 53 [] t = ":" -> 58 [] t = ";" -> 59
      [] t = "A" -> 65 [] t = "B" -> 66 [] t = "C" -> 67
      [] t = "NA_L1CODE" -> 781 [] t = "NA_L2CODE" -> 782
      [] t = "NA_L3CODE" -> 783 [] t = "US_L3CODE" -> 853
      [] t = "US_L4CODE" -> 854
      [] t = "a" -> 97 [] t = "b" -> 98 [] t = "c" -> 99
      [] OTHER -> 0

RECURSIVE TextLess(_, _)
TextLess(a, b) ==
    IF b = <<>> THEN FALSE
    ELSE IF a = <<>> THEN TRUE
    ELSE IF Head(a) # Head(b) THEN TokenOrd(Head(a)) < TokenOrd(Head(b))
    ELSE TextLess(Tail(a), Tail(b))

\* str(x) of a cell value inside an f-string
Str(v) == IF v = None THEN <<"N", "o", "n", "e">> ELSE v[1]

RECURSIVE Split(_, _)
Split(s, sep) ==
    IF \A i \in DOMAIN s : s[i] # sep THEN <<s>>
    ELSE LET i == CHOOSE k \in DOMAIN s :
                      s[k] = sep /\ \A j \in 1..(k - 1) : s[j] # sep
         IN  <<SubSeq(s, 1, i - 1)>> \o Split(SubSeq(s, i + 1, Len(s)), sep)

RECURSIVE Join(_, _)
Join(parts, sep) ==
    IF parts = <<>> THEN <<>>
    ELSE IF Len(parts) = 1 THEN parts[1]
    ELSE parts[1] \o <<sep>> \o Join(Tail(parts), sep)

Title(s) ==
    [i \in DOMAIN s |->
        IF ~IsCased(s[i]) THEN s[i]
        ELSE IF i = 1 \/ ~IsCased(s[i - 1]) THEN UpperOf(s[i])
        ELSE LowerOf(s[i])]

(***************************************************************************)
(* Rows and frames.  A row maps column names to values; a frame is a       *)
(* sequence of rows.  Every column but geometry holds an optional text.    *)
(***************************************************************************)
Keep(row, cols) == [c \in (DOMAIN row) \cap cols |-> row[c]]

DropCol(row, col) == [c \in (DOMAIN row) \ {col} |-> row[c]]

SetCol(row, col, v) ==
    [c \in (DOMAIN row) \cup {col} |-> IF c = col THEN v ELSE row[c]]

Columns(frame) == UNION {DOMAIN frame[i] : i \in DOMAIN frame}

\* a concatenation that keeps one row of each set of equal rows
concat_drop_duplicates(frames) ==
    LET all == Concat(frames)
        firsts == {i \in DOMAIN all : \A j \in 1..(i - 1) : all[j] # all[i]}
        kept == [n \in 1..Cardinality(firsts) |->
                    all[CHOOSE i \in firsts :
                            Cardinality({j \in firsts : j <= i}) = n]]
        cols == Columns(kept) \cup {"index"}
    IN  [i \in DOMAIN kept |->
            [c \in cols |->
                IF c = "index" THEN i - 1
                ELSE IF c \in DOMAIN kept[i] THEN kept[i][c]
                ELSE None]]

\* pd.concat(..., ignore_index=True, sort=False): every row of every frame, in
\* order, over the union of the columns, a fresh RangeIndex as "index"
concat(frames) ==
    LET all == Concat(frames)
        cols == Columns(all) \cup {"index"}
    IN  [i \in DOMAIN all |->
            [c \in cols |->
                IF c = "index" THEN i - 1
                ELSE IF c \in DOMAIN all[i] THEN all[i][c]
                ELSE None]]

(***************************************************************************)
(* Geometry.  cells: the areal part; pts: isolated points (cell centres)   *)
(* outside it.                                                             *)
(***************************************************************************)
Area(S) == [cells |-> S, pts |-> {}]

PointAt(c) == [cells |-> {}, pts |-> {c}]

Parts(S) ==
    {<<lo, hi>> \in S \X S :
        /\ lo <= hi
        /\ \A c \in lo..hi : c \in S
        /\ (lo - 1) \notin S
        /\ (hi + 1) \notin S}

geom_type(g) ==
    IF g.pts = {} THEN
        IF Cardinality(Parts(g.cells)) = 1 THEN "Polygon" ELSE "MultiPolygon"
    ELSE IF g.cells = {} THEN
        IF Cardinality(g.pts) = 1 THEN "Point" ELSE "MultiPoint"
    ELSE "GeometryCollection"

\* a union that also takes in the cells next to the ones it merges
buffered_union(gs) ==
    LET A == UNION {g.cells : g \in gs}
        P == UNION {g.pts : g \in gs}
        grown == {c \in Cells : \E a \in A : c - a \in {-1, 0, 1}}
    IN  [cells |-> grown, pts |-> P \ grown]

\* shapely unary_union of a collection of geometries
unary_union(gs) ==
    LET A == UNION {g.cells : g \in gs}
        P == UNION {g.pts : g \in gs}
    IN  [cells |-> A, pts |-> P \ A]

\* a join without its WHERE clause: every pair passes
AnyPair(g, h) == TRUE

\* ST_Contains: no point of h lies outside g
ST_Contains(g, h) ==
    /\ h.cells \subseteq g.cells
    /\ h.pts \subseteq (g.cells \cup g.pts)

\* ST_Intersects: the two geometries share a point, boundary points included
ST_Intersects(g, h) ==
    \/ \E a \in g.cells, b \in h.cells : a - b \in {-1, 0, 1}
    \/ g.pts \cap (h.cells \cup h.pts) # {}
    \/ h.pts \cap g.cells # {}

RECURSIVE Gcd(_, _)
Gcd(a, b) == IF b = 0 THEN a ELSE Gcd(b, a % b)

SumOf(f, S) ==
    LET Sum[T \in SUBSET S] ==
            IF T = {} THEN 0
            ELSE LET c == CHOOSE d \in T : TRUE IN f[c] + Sum[T \ {c}]
    IN  Sum[S]

\* a reduced fraction <<numerator, denominator>>
Fraction(n, d) == LET g == Gcd(n, d) IN <<n \div g, d \div g>>

\* the centroid of the first polygon alone
centroid_of_first_part(g) ==
    LET first == IF g.cells = {} THEN g.pts
                 ELSE LET lo == CHOOSE c \in g.cells : \A d \in g.cells : c <= d
                      IN  {c \in g.cells : \A d \in lo..c : d \in g.cells}
    IN  [x |-> Fraction(SumOf([c \in first |-> 2 * c - 1], first),
                        2 * Cardinality(first)),
         y |-> Fraction(SumOf([c \in first |-> 1], first), 2 * Cardinality(first))]

\* the centroid of the components of highest dimension; cell c spans
\* [c-1, c] x [0, 1]
centroid(g) ==
    LET S == IF g.cells # {} THEN g.cells ELSE g.pts
    IN  [x |-> Fraction(SumOf([c \in S |-> 2 * c - 1], S), 2 * Cardinality(S)),
         y |-> Fraction(SumOf([c \in S |-> 1], S), 2 * Cardinality(S))]

\* geometry.wkt, and the geometry the store parses from it
wkt(g) == [type |-> geom_type(g), polygons |-> Parts(g.cells), points |-> g.pts]

FromWKT(w) ==
    [cells |-> UNION {p[1]..p[2] : p \in w.polygons}, pts |-> w.points]

WKTElement(text, srid) == [data |-> text, srid |-> srid]

(***************************************************************************)
(* The external identifier service, as the notebooks see it.               *)
(***************************************************************************)
CountryIds == [US |-> <<"Q30">>, CA |-> <<"Q16">>, MX |-> <<"Q96">>]

\* the administrative units the knowledge base holds: by country and
\* identifier (state and county codes), by country and name
AdminByIdentifier ==
    {<<"US", <<"0", "1">>, <<"Q100">>>>, <<"US", <<"0", "1", "1">>, <<"Q101">>>>}

AdminByName == {<<"CA", <<"A">>, <<"Q200">>>>}

\* the id the set of entries holds for the country and the key, if any
Match(entries, country, key) ==
    LET hits == {e \in entries : e[1] = country /\ e[2] = key}
    IN  IF hits = {} THEN None ELSE Some((CHOOSE e \in hits : TRUE)[3])

\* return_var "country": the id of the country; otherwise the id of the unit,
\* matched on its identifier, or on its name when it has no identifier
lookup_admin_ref(country, name, identifier, return_var) ==
    IF country = None \/ Str(country)[1] \notin DOMAIN CountryIds THEN None
    ELSE LET c == Str(country)[1]
         IN  IF return_var = "country" THEN Some(CountryIds[c])
             ELSE IF identifier # None THEN Match(AdminByIdentifier, c, Str(identifier))
             ELSE IF name # None THEN Match(AdminByName, c, Str(name))
             ELSE None

\* the CONUS level III and IV ecoregion items the knowledge base holds
EcoregionIds == {<<<<"US_L3CODE", ":", "1">>, <<"Q500">>>>}

lookup_wd(contextual_identifier) ==
    IF \E e \in EcoregionIds : e[1] = Str(contextual_identifier)
    THEN Some((CHOOSE e \in EcoregionIds : e[1] = Str(contextual_identifier))[2])
    ELSE None

\* the lookup functions, each with a prefetch cache of its own
LookupFunctions == {"lookup_admin_ref", "lookup_wd"}

(***************************************************************************)
(* The ecoregions notebook: its functions.                                 *)
(***************************************************************************)
Levels == 1..5

Sources ==
    <<"NA_CEC_Eco_Level1", "NA_CEC_Eco_Level2", "NA_CEC_Eco_Level3",
      "US_Eco_Level3", "US_Eco_Level4">>

NameColumns == <<"NA_L1NAME", "NA_L2NAME", "NA_L3NAME", "US_L3NAME", "US_L4NAME">>

CommonColumns ==
    {"source", "contextual_identifier", "part_of_identifiers", "common_name",
     "geometry"}

\* f"{tag}:{row.<tag>}"
TagCode(row, k) == <<LevelTags[k], ":">> \o Str(row[LevelTags[k]])

\* the f-string that lists the levels from the second to the row's own
PartOfTextThroughOwn(row, l) ==
    Join([k \in 1..(l - 1) |-> TagCode(row, k + 1)], ";")

\* the f-string of the ancestors of a row of level l, ";" between them
PartOfText(row, l) == Join([k \in 1..(l - 1) |-> TagCode(row, k)], ";")

\* clean_synth_df, for one row of the dataset of level l
CleanRow(row, l) ==
    LET keyed == SetCol(row, "contextual_identifier", Some(TagCode(row, l)))
        named == SetCol(keyed, "common_name", row[NameColumns[l]])
        parted == IF l = 1 THEN named
                  ELSE SetCol(named, "part_of_identifiers",
                              Some(PartOfText(row, l)))
    IN  Keep(parted, CommonColumns)

CleanFrame(frame, l) == [i \in DOMAIN frame |-> CleanRow(frame[i], l)]

RECURSIVE SortTexts(_)
SortTexts(S) ==
    IF S = {} THEN <<>>
    ELSE LET m == CHOOSE a \in S : \A b \in S \ {a} : TextLess(a, b)
         IN  <<m>> \o SortTexts(S \ {m})

\* the last value of the column in the group that is not null
Last(group, col) ==
    IF \A i \in DOMAIN group : group[i][col] = None THEN None
    ELSE group[CHOOSE i \in DOMAIN group :
                 /\ group[i][col] # None
                 /\ \A j \in (i + 1)..Len(group) : group[j][col] = None][col]

\* GroupBy.first: the first value of the column in the group that is not null
First(group, col) ==
    IF \A i \in DOMAIN group : group[i][col] = None THEN None
    ELSE group[CHOOSE i \in DOMAIN group :
                 /\ group[i][col] # None
                 /\ \A j \in 1..(i - 1) : group[j][col] = None][col]

\* the frame as it is, without grouping
dissolve_rows(frame, by) == [n \in DOMAIN frame |-> DropCol(frame[n], "index")]

\* GeoDataFrame.dissolve(by=...): one row per key, keys in ascending order,
\* the geometries of a group unioned, every other column aggregated by first
dissolve(frame, by) ==
    LET keys == SortTexts({Str(frame[i][by]) :
                             i \in {j \in DOMAIN frame : frame[j][by] # None}})
        Group(k) == SelectSeq(frame, LAMBDA r : r[by] = Some(k))
        cols == Columns(frame) \ {"geometry", by, "index"}
    IN  [n \in DOMAIN keys |->
            LET group == Group(keys[n])
            IN  [c \in cols \cup {"geometry", by} |->
                    IF c = by THEN Some(keys[n])
                    ELSE IF c = "geometry"
                         THEN unary_union({group[i]["geometry"] : i \in DOMAIN group})
                    ELSE First(group, c)]]

combine_geometries(combined_source) ==
    dissolve(combined_source, "contextual_identifier")

\* combined_source.source.isin(["US_Eco_Level3","US_Eco_Level4"])
Resolved == {Some(<<"US_Eco_Level3">>), Some(<<"US_Eco_Level4">>)}

prepare_wikidata_info(combined_source) ==
    [i \in DOMAIN combined_source |->
        LET row == combined_source[i]
            c == centroid(row["geometry"])
        IN  [k \in (DOMAIN row) \cup {"index", "x", "y", "wikidata_id"} |->
                CASE k = "index" -> i - 1
                  [] k = "x" -> Some(c.x)
                  [] k = "y" -> Some(c.y)
                  [] k = "common_name" ->
                        IF row[k] = None THEN None ELSE Some(Title(Str(row[k])))
                  [] k = "wikidata_id" ->
                        IF row["source"] \in Resolved
                        THEN lookup_wd(row["contextual_identifier"])
                        ELSE None
                  [] OTHER -> row[k]]]

\* the calls of lookup_wd that prepare_wikidata_info makes: the source of the
\* row and the argument of the call
Queried(combined_source) ==
    {[source |-> combined_source[i]["source"],
      key |-> combined_source[i]["contextual_identifier"]] :
        i \in {j \in DOMAIN combined_source :
                    combined_source[j]["source"] \in Resolved}}

(***************************************************************************)
(* The first version of the ecoregions notebook, which the file keeps      *)
(* above the functions: the same steps, written cell by cell.              *)
(***************************************************************************)
\* the tag each standardization statement writes before the code of the row
FirstKeyTags == <<"NA_L1CODE", "NA_L2CODE", "NA_L1CODE", "US_L3CODE", "US_L4CODE">>

\* the standardization cell, for one row of the dataset of level l
FirstCleanRow(row, l) ==
    LET keyed == SetCol(row, "contextual_identifier",
                        Some(<<FirstKeyTags[l], ":">> \o Str(row[LevelTags[l]])))
        named == SetCol(keyed, "common_name", row[NameColumns[l]])
        parted == IF l = 1 THEN named
                  ELSE SetCol(named, "part_of_identifiers",
                              Some(PartOfText(row, l)))
    IN  Keep(parted, CommonColumns)

FirstCleanFrame(frame, l) == [i \in DOMAIN frame |-> FirstCleanRow(frame[i], l)]

\* the ecoregion items the knowledge base holds, by label
EcoregionLabels == {<<<<"A", "b", " ", "C">>, <<"Q500">>>>}

\* lookup_wd("Ecoregions", name, None): the item whose label is the name
lookup_wd_label(reference, name, identifier) ==
    IF name # None /\ \E e \in EcoregionLabels : e[1] = Str(name)
    THEN Some((CHOOSE e \in EcoregionLabels : e[1] = Str(name))[2])
    ELSE None

\* the cell of the representative point, the label and the lookup
FirstWikidataInfo(simplified_ecoregions) ==
    [i \in DOMAIN simplified_ecoregions |->
        LET row == simplified_ecoregions[i]
            c == centroid(row["geometry"])
            label == IF row["common_name"] = None THEN None
                     ELSE Some(Title(Str(row["common_name"])))
        IN  [k \in (DOMAIN row) \cup {"x", "y", "wikidata_id"} |->
                CASE k = "x" -> Some(c.x)
                  [] k = "y" -> Some(c.y)
                  [] k = "common_name" -> label
                  [] k = "wikidata_id" -> lookup_wd_label("Ecoregions", label, None)
                  [] OTHER -> row[k]]]

\* the calls of lookup_wd that cell makes: one for every row
FirstQueried(simplified_ecoregions) ==
    {[source |-> simplified_ecoregions[i]["source"],
      key |-> IF simplified_ecoregions[i]["common_name"] = None THEN None
              ELSE Some(Title(Str(simplified_ecoregions[i]["common_name"])))] :
        i \in DOMAIN simplified_ecoregions}

\* a conversion that gives the row its geom and blanks its other attributes
ToGeomBlank(row) ==
    [c \in ((DOMAIN row) \ {"geometry"}) \cup {"geom"} |->
        IF c = "geom" THEN WKTElement(wkt(row["geometry"]), 4326)
        ELSE IF c = "index" THEN row[c]
        ELSE None]

\* geometry -> geom (WKT, srid 4326), geometry dropped
ToGeom(row) ==
    DropCol(SetCol(row, "geom", WKTElement(wkt(row["geometry"]), 4326)), "geometry")

\* the rows left after dropping those whose geometry type is `dropped`
PartitionRows(frame, dropped) ==
    LET kept == SelectSeq(frame, LAMBDA r : geom_type(r["geometry"]) # dropped)
    IN  [i \in DOMAIN kept |-> ToGeom(kept[i])]

\* a partition that drops the polygons from both subsets
prep_multi_twice(combined_dataset) ==
    <<PartitionRows(combined_dataset, "Polygon"),
      PartitionRows(combined_dataset, "Polygon")>>

\* frame.drop(frame[frame.geometry.geom_type == dropped].index, inplace=True)
DropRows(frame, dropped) ==
    SelectSeq(frame, LAMBDA r : geom_type(r["geometry"]) # dropped)

\* frame['geom'] = frame['geometry'].apply(lambda x: WKTElement(x.wkt, srid=4326))
WithGeom(frame) ==
    [i \in DOMAIN frame |->
        SetCol(frame[i], "geom", WKTElement(wkt(frame[i]["geometry"]), 4326))]

\* frame.drop('geometry', 1, inplace=True)
WithoutGeometry(frame) == [i \in DOMAIN frame |-> DropCol(frame[i], "geometry")]

\* an assignment without a copy: the name is bound to the object itself
apply_nothing(object, fresh) == object

\* combined_dataset.apply(copy.deepcopy): a fresh object, equal to the frame
apply_deepcopy(object, fresh) == fresh

\* prep_source_for_pg on frame objects: object 1 is the input, and every
\* statement changes the one object its name is bound to;
\* <<combined_dataset, dataset_multi, dataset_poly>> as the call leaves them
PrepObjects(combined_dataset) ==
    LET multi == apply_deepcopy(1, 2)
        poly == apply_deepcopy(1, 3)
        Put(h, o, frame) == [h EXCEPT ![o] = frame]
        h0 == [o \in 1..3 |-> combined_dataset]
        h1 == Put(h0, multi, DropRows(h0[multi], "Polygon"))
        h2 == Put(h1, poly, DropRows(h1[poly], "MultiPolygon"))
        h3 == Put(h2, multi, WithGeom(h2[multi]))
        h4 == Put(h3, poly, WithGeom(h3[poly]))
        h5 == Put(h4, multi, WithoutGeometry(h4[multi]))
        h6 == Put(h5, poly, WithoutGeometry(h5[poly]))
    IN  <<h6[1], h6[multi], h6[poly]>>

\* prep_source_for_pg: <<dataset_multi, dataset_poly>>
prep_source_for_pg(combined_dataset) ==
    <<PrepObjects(combined_dataset)[2], PrepObjects(combined_dataset)[3]>>

(***************************************************************************)
(* The spatial store.  A table, a view and a query result are bags of      *)
(* rows.                                                                   *)
(***************************************************************************)
BagOf(f, S) ==
    LET img == {f[v][1] : v \in S}
    IN  [w \in img |-> SumOf([v \in S |-> IF f[v][1] = w THEN f[v][2] ELSE 0], S)]

\* the rows DataFrame.to_sql sends: the index as a column when index=True
SqlRows(frame, index) ==
    [i \in DOMAIN frame |->
        LET row == IF index THEN frame[i] ELSE DropCol(frame[i], "index")
        IN  SetCol(row, "geom", FromWKT(row["geom"].data))]

\* a geometry(<type>, 4326) column takes only values of its type
Accepts(frame, type) ==
    \A i \in DOMAIN frame : frame[i]["geom"].data.type = type

\* a DROP TABLE that leaves a dependent view as it is
DroppedRegardless(view) == TRUE

\* to_sql(..., if_exists='replace') issues DROP TABLE, which the store
\* refuses while a view depends on the table
Droppable(view) == view = None

\* to_sql(..., if_exists='replace'): the table is dropped and created again,
\* then the rows are inserted, or none of them when the store refuses one
to_sql(frame, index, type) ==
    IF Accepts(frame, type) THEN SeqToBag(SqlRows(frame, index)) ELSE EmptyBag

\* SELECT b.name AS boundary_name, <ids>, e.contextual_identifier
\* FROM b_table AS b, e_table AS e WHERE ST_Intersects(b.geom, e.geom);
\* the id columns are those boundary_intersects_list reads from the view
SelectIntersecting(b_table, e_table) ==
    LET pairs == {p \in BagToSet(b_table) \X BagToSet(e_table) :
                     ST_Intersects(p[1]["geom"], p[2]["geom"])}
    IN  BagOf([p \in pairs |->
                 <<[boundary_name |-> p[1]["name"],
                    admin_id |-> p[1]["admin_id"],
                    country_id |-> p[1]["country_id"],
                    contextual_identifier |-> p[2]["contextual_identifier"]],
                   CopiesIn(p[1], b_table) * CopiesIn(p[2], e_table)>>],
              pairs)

\* the four SELECTs joined by UNION ALL, which keeps duplicate rows
IntersectionsUnionAll(b_m, b_p, e_m, e_p) ==
    SelectIntersecting(b_m, e_m) (+) SelectIntersecting(b_m, e_p)
    (+) SelectIntersecting(b_p, e_m) (+) SelectIntersecting(b_p, e_p)

\* the four SELECTs joined by UNION, which removes duplicate rows
IntersectionsSQL(b_m, b_p, e_m, e_p) ==
    Distinct(SelectIntersecting(b_m, e_m) (+) SelectIntersecting(b_m, e_p)
             (+) SelectIntersecting(b_p, e_m) (+) SelectIntersecting(b_p, e_p))

\* the column intersect_type of the triples of the identifier, as a list
intersects_to_list(triples, contextual_identifier, intersect_type) ==
    LET hits == {t \in BagToSet(triples) :
                    t.contextual_identifier = contextual_identifier}
    IN  BagOf([t \in hits |-> <<t[intersect_type], CopiesIn(t, triples)>>], hits)

\* a list that leaves out the triples whose id is absent
boundary_intersects_valid(triples, contextual_identifier, intersect_type) ==
    LET hits == {t \in BagToSet(triples) :
                    /\ t.contextual_identifier = contextual_identifier
                    /\ t[intersect_type] # None}
        intersecting_ids ==
            BagOf([t \in hits |-> <<t[intersect_type], CopiesIn(t, triples)>>], hits)
    IN  Distinct(intersecting_ids)

\* list(set(<column intersect_type of the triples of the identifier>))
boundary_intersects_list(triples, contextual_identifier, intersect_type) ==
    LET hits == {t \in BagToSet(triples) :
                    t.contextual_identifier = contextual_identifier}
        intersecting_ids ==
            BagOf([t \in hits |-> <<t[intersect_type], CopiesIn(t, triples)>>], hits)
    IN  Distinct(intersecting_ids)

\* SELECT *: every column of the tables
EcoregionColumnsStar ==
    {"index", "contextual_identifier", "wikidata_id", "source", "common_name",
     "part_of_identifiers", "x", "y", "geom"}

EcoregionColumns ==
    {"contextual_identifier", "wikidata_id", "source", "common_name",
     "part_of_identifiers", "x", "y"}

\* every row of the table has the columns
Selectable(table, cols) == \A r \in BagToSet(table) : cols \subseteq DOMAIN r

Project(table, cols) ==
    BagOf([r \in BagToSet(table) |-> <<Keep(r, cols), CopiesIn(r, table)>>],
          BagToSet(table))

\* x.split(',') if x is not None else x
ParseCommaList(x) == IF x # None THEN Some(Split(Str(x), ",")) ELSE x

\* a parse that gives the empty list where no text is stored
ParseOrEmpty(x) == IF x # None THEN Some(Split(Str(x), ";")) ELSE Some(<<>>)

\* x.split(';') if x is not None else x
ParsePartOf(x) == IF x # None THEN Some(Split(Str(x), ";")) ELSE x

\* the seven columns of the multipolygon table alone
q_multipolygons(e_m, e_p) == Distinct(Project(e_m, EcoregionColumns))

\* q_ecoregions: SELECT <the seven columns> FROM ecoregions_m UNION
\* SELECT <the seven columns> FROM ecoregions_p; UNION removes duplicate rows
q_ecoregions(e_m, e_p) ==
    Distinct(Project(e_m, EcoregionColumns) (+) Project(e_p, EcoregionColumns))

\* recombine_ecoregions: the UNION of the seven columns of the two tables,
\* part_of_identifiers split, the two intersect lists attached
recombine_ecoregions(e_m, e_p, triples) ==
    LET df_rows == q_ecoregions(e_m, e_p)
        Finish(r) ==
            [k \in (DOMAIN r) \cup {"admin_intersects", "country_intersects"} |->
                CASE k = "part_of_identifiers" -> ParsePartOf(r[k])
                  [] k = "admin_intersects" ->
                        boundary_intersects_list(triples, r["contextual_identifier"],
                                                 "admin_id")
                  [] k = "country_intersects" ->
                        boundary_intersects_list(triples, r["contextual_identifier"],
                                                 "country_id")
                  [] OTHER -> r[k]]
    IN  BagOf([r \in BagToSet(df_rows) |->
                 <<Finish(r), CopiesIn(r, df_rows)>>],
              BagToSet(df_rows))

(***************************************************************************)
(* The boundaries notebook: its cells.                                     *)
(***************************************************************************)
\* the columns the lookups read from each row
LookupColumns == {"country", "name", "identifier"}

\* the two lookup columns, admin_id then country_id
LookupAdmin(frame) ==
    [i \in DOMAIN frame |->
        LET row == frame[i]
            Ref(v) == lookup_admin_ref(row["country"], row["name"],
                                       row["identifier"], v)
        IN  SetCol(SetCol(row, "admin_id", Ref("wd_id")), "country_id", Ref("country"))]

\* a call of a lookup function whose remote query raises: the function
\* answers it as it answers a miss
Recovered(raises, answer) == IF raises THEN None ELSE answer

\* the call made for the row of index label i to fill the column
Request(frame, i, column) == [frame |-> frame, index |-> i, column |-> column]

\* the two applies, when the exception of a raising query leaves the apply
LookupAdminRaising(frame, raised) ==
    IF raised # {} THEN frame ELSE LookupAdmin(frame)

\* the two applies of the lookup cell, the queries of the calls in `raised`
\* raising
LookupAdminRemote(frame, raised) ==
    [i \in DOMAIN frame |->
        LET row == frame[i]
            Ref(v, column) ==
                Recovered(Request("boundaries", i - 1, column) \in raised,
                          lookup_admin_ref(row["country"], row["name"],
                                           row["identifier"], v))
        IN  SetCol(SetCol(row, "admin_id", Ref("wd_id", "admin_id")),
                   "country_id", Ref("country", "country_id"))]

\* prepare_wikidata_info, the queries of the calls in `raised` raising
prepare_wikidata_info_remote(combined_source, raised) ==
    LET prepared == prepare_wikidata_info(combined_source)
    IN  [i \in DOMAIN prepared |->
            SetCol(prepared[i], "wikidata_id",
                   Recovered(Request("ecoregions", i - 1, "wikidata_id") \in raised,
                             prepared[i]["wikidata_id"]))]

\* the calls the two cells make
BoundaryRequests(frame) ==
    {Request("boundaries", i - 1, column) :
        i \in DOMAIN frame, column \in {"admin_id", "country_id"}}

EcoregionRequests(combined_source) ==
    {Request("ecoregions", i - 1, "wikidata_id") :
        i \in {j \in DOMAIN combined_source :
                    combined_source[j]["source"] \in Resolved}}

(***************************************************************************)
(* The source data the two notebooks may read.                             *)
(***************************************************************************)
\* what the reads of a notebook may return: at most n rows in all, each with
\* the source it belongs to, listed source by source in the order `order`
SourceRows(order, rows, n) ==
    LET tagged == UNION {{<<order[k], r>> : r \in rows[order[k]]} : k \in DOMAIN order}
        Pos(src) == CHOOSE k \in DOMAIN order : order[k] = src
    IN  {s \in UNION {[1..k -> tagged] : k \in 0..n} :
            \A i \in 1..(Len(s) - 1) : Pos(s[i][1]) <= Pos(s[i + 1][1])}

\* the rows read for one source
FrameOf(rows, src) ==
    LET mine == SelectSeq(rows, LAMBDA t : t[1] = src)
    IN  [i \in DOMAIN mine |-> mine[i][2]]

\* the shapes a boundary row may carry: a polygon, a multipolygon of two
\* parts that lie apart, a point
BoundaryShapes == {Area({1}), Area({1, NumCells}), PointAt(1)}

\* the shapes an ecoregion row may carry: each cell, and a multipolygon
EcoregionShapes == {Area({c}) : c \in Cells} \cup {Area({1, NumCells})}

BoundaryNames == {<<"A">>}

\* the order in which the notebook concatenates its sources
BoundaryOrder == <<"ca_states", "us_states", "mx_states", "us_counties">>

BoundarySources == Range(BoundaryOrder)

\* the column-mapping configuration of the four get_source_df calls
FilterToColumns ==
    [us_states |-> {"NAME", "GEOID", "STUSPS", "geometry"},
     us_counties |-> {"NAME", "GEOID", "geometry"},
     ca_states |-> {"PRENAME", "PREABBR", "geometry"},
     mx_states |-> {"ADMIN_NAME", "FIPS_ADMIN", "GMI_ADMIN", "geometry"}]

RenameColumns ==
    [us_states |-> {<<"NAME", "name">>, <<"GEOID", "identifier">>,
                    <<"STUSPS", "abbreviation">>},
     us_counties |-> {<<"NAME", "name">>, <<"GEOID", "identifier">>,
                      <<"STUSPS", "abbreviation">>},
     ca_states |-> {<<"PRENAME", "name">>, <<"PREABBR", "abbreviation">>},
     mx_states |-> {<<"ADMIN_NAME", "name">>, <<"FIPS_ADMIN", "identifier">>,
                    <<"GMI_ADMIN", "abbreviation">>}]

\* the retained and renamed columns alone, add_columns left out
RetainedColumns(src) ==
    {IF \E r \in RenameColumns[src] : r[1] = c
     THEN (CHOOSE r \in RenameColumns[src] : r[1] = c)[2] ELSE c :
        c \in FilterToColumns[src]}

\* the columns a source has once filtered, renamed and given its country:
\* a renaming of a column that was not retained changes nothing
NormalizedColumns(src) ==
    {IF \E r \in RenameColumns[src] : r[1] = c
     THEN (CHOOSE r \in RenameColumns[src] : r[1] = c)[2] ELSE c :
        c \in FilterToColumns[src]} \cup {"country"}

\* the columns get_source_df leaves for each boundary source
BoundaryColumns ==
    [src \in {"ca_states", "us_states", "mx_states", "us_counties"} |->
        NormalizedColumns(src)]

BoundaryCountry ==
    [ca_states |-> "CA", us_states |-> "US", mx_states |-> "MX", us_counties |-> "US"]

\* the code each source gives its rows: a state code, a county code
BoundaryIdentifier ==
    [ca_states |-> <<"0", "1">>, us_states |-> <<"0", "1">>,
     mx_states |-> <<"0", "1">>, us_counties |-> <<"0", "1", "1">>]

BoundaryRow(src, nm, g) ==
    Keep([name |-> Some(nm), identifier |-> Some(BoundaryIdentifier[src]),
          abbreviation |-> Some(nm), country |-> Some(<<BoundaryCountry[src]>>),
          geometry |-> g],
         BoundaryColumns[src])

BoundaryRows(src) ==
    {BoundaryRow(src, nm, g) : nm \in BoundaryNames, g \in BoundaryShapes}

CodeValues == {<<"1">>}

\* the levels whose source holds rows
LevelsRead == {1, 4}

EcoNames == {<<"a", "b", " ", "c">>}

\* the codes a row may give for its parent
ParentCodes == {<<"1">>, <<"1", ";", "2">>}

\* a row of the source dataset of level l: its own code, the code of its
\* parent and of each higher ancestor, its name, the source tag get_source_df
\* adds, its geometry
EcoRow(l, code, parent, nm, g) ==
    [c \in {LevelTags[k] : k \in 1..l} \cup {NameColumns[l], "source", "geometry"} |->
        CASE c = LevelTags[l] -> Some(code)
          [] c = NameColumns[l] -> Some(nm)
          [] c = "source" -> Some(<<Sources[l]>>)
          [] c = "geometry" -> g
          [] l > 1 /\ c = LevelTags[l - 1] -> Some(parent)
          [] OTHER -> Some(<<"1">>)]

EcoRows(l) ==
    IF l \notin LevelsRead THEN {}
    ELSE {EcoRow(l, code, parent, nm, g) :
            code \in CodeValues,
            parent \in IF l = 1 THEN {<<"1">>} ELSE ParentCodes,
            nm \in EcoNames, g \in EcoregionShapes}

\* the levels whose source holds rows when the first version runs
FirstLevelsRead == {1, 3, 4}

FirstEcoRows(l) ==
    IF l \notin FirstLevelsRead THEN {}
    ELSE {EcoRow(l, code, parent, nm, g) :
            code \in CodeValues,
            parent \in IF l = 1 THEN {<<"1">>} ELSE ParentCodes,
            nm \in EcoNames, g \in EcoregionShapes}

EcoregionOrder == <<"na_er1", "na_er2", "na_er3", "conus_er3", "conus_er4">>

EcoregionRows(src) == EcoRows(CHOOSE l \in Levels : EcoregionOrder[l] = src)

FirstEcoregionRows(src) ==
    FirstEcoRows(CHOOSE l \in Levels : EcoregionOrder[l] = src)

(***************************************************************************)
(* The state: the variables of the two notebooks, the tables and the view  *)
(* of the store, the exported file, and the cell that runs next.           *)
(***************************************************************************)
VARIABLES pc, crs, queried, errors, prefetched,
          ca_states, us_states, mx_states, us_counties,
          boundaries, boundaries_multi,
          na_er1, na_er2, na_er3, conus_er3, conus_er4,
          ecoregions, dataset_multi, dataset_poly,
          boundaries_p, boundaries_m, ecoregions_p, ecoregions_m, intersections,
          df_intersections, df_ecoregions, ecoregions_pkl

boundary_vars == <<ca_states, us_states, mx_states, us_counties,
                   boundaries, boundaries_multi>>

source_vars == <<na_er1, na_er2, na_er3, conus_er3, conus_er4>>

frame_vars == <<ecoregions, dataset_multi, dataset_poly>>

boundary_tables == <<boundaries_p, boundaries_m>>

ecoregion_tables == <<ecoregions_p, ecoregions_m>>

result_vars == <<df_intersections, df_ecoregions, ecoregions_pkl>>

vars == <<pc, crs, queried, errors, prefetched, boundary_vars, source_vars, frame_vars, boundary_tables,
          ecoregion_tables, intersections, result_vars>>

FrameNames ==
    {"ca_states", "us_states", "mx_states", "us_counties", "boundaries",
     "na_er1", "na_er2", "na_er3", "conus_er3", "conus_er4", "ecoregions"}

Init ==
    /\ pc = "boundary_sources"
    /\ crs = [f \in FrameNames |-> "unset"]
    /\ queried = {}
    /\ errors = {}
    /\ prefetched = [f \in LookupFunctions |-> 0]
    /\ ca_states = <<>> /\ us_states = <<>> /\ mx_states = <<>> /\ us_counties = <<>>
    /\ boundaries = <<>> /\ boundaries_multi = <<>>
    /\ na_er1 = <<>> /\ na_er2 = <<>> /\ na_er3 = <<>>
    /\ conus_er3 = <<>> /\ conus_er4 = <<>>
    /\ ecoregions = <<>> /\ dataset_multi = <<>> /\ dataset_poly = <<>>
    /\ boundaries_p = EmptyBag /\ boundaries_m = EmptyBag
    /\ ecoregions_p = EmptyBag /\ ecoregions_m = EmptyBag
    /\ intersections = None
    /\ df_intersections = EmptyBag /\ df_ecoregions = EmptyBag
    /\ ecoregions_pkl = EmptyBag

\* a lookup function that runs its bulk query on every call
PrefetchEachCall(count) == count + 1

\* one call of a lookup function: the bulk query runs, and fills the cache,
\* only if no call has filled it yet; `count` is the bulk queries run so far
Prefetch(count) == IF count = 0 THEN 1 ELSE count

RECURSIVE Calls(_, _)
Calls(count, n) == IF n = 0 THEN count ELSE Calls(Prefetch(count), n - 1)

\* the bulk queries run once the function has been called n more times
AfterCalls(function, n) ==
    [f \in LookupFunctions |->
        IF f = function THEN Calls(prefetched[f], n) ELSE prefetched[f]]

\* the calls of the two applies of the boundaries lookup cell; the first row
\* ends the cell before any call when the identifier column is missing
AdminCalls(frame) ==
    IF frame = <<>> \/ LookupColumns \subseteq Columns(frame) THEN 2 * Len(frame) ELSE 0

\* an assignment that leaves every reference system as it is
KeepCrs(names, value) == crs

SetCrs(names, value) == [f \in FrameNames |-> IF f \in names THEN value ELSE crs[f]]

(***************************************************************************)
(* The boundaries notebook, cell by cell.                                  *)
(***************************************************************************)
\* the four get_source_df calls
BoundaryGetSources ==
    /\ pc = "boundary_sources"
    /\ \E rows \in SourceRows(BoundaryOrder, [src \in BoundarySources |-> BoundaryRows(src)],
                           MaxRows) :
            /\ ca_states' = FrameOf(rows, "ca_states")
            /\ us_states' = FrameOf(rows, "us_states")
            /\ mx_states' = FrameOf(rows, "mx_states")
            /\ us_counties' = FrameOf(rows, "us_counties")
    /\ crs' = SetCrs(BoundarySources, "native")
    /\ pc' = "boundary_to_crs"
    /\ UNCHANGED <<boundaries, boundaries_multi, source_vars, frame_vars,
                   boundary_tables, ecoregion_tables, intersections, result_vars>>
    /\ UNCHANGED <<queried, errors, prefetched>>

\* to_crs of each source
BoundaryToCrs ==
    /\ pc = "boundary_to_crs"
    /\ crs' = SetCrs(BoundarySources, "epsg:4326")
    /\ pc' = "boundary_concat"
    /\ UNCHANGED <<boundary_vars, source_vars, frame_vars, boundary_tables,
                   ecoregion_tables, intersections, result_vars>>
    /\ UNCHANGED <<queried, errors, prefetched>>

\* pd.concat of the four sources; boundaries.crs = us_states.crs
BoundaryConcat ==
    /\ pc = "boundary_concat"
    /\ boundaries' = concat(<<ca_states, us_states, mx_states, us_counties>>)
    /\ crs' = SetCrs({"boundaries"}, crs["us_states"])
    /\ pc' = "boundary_lookup"
    /\ UNCHANGED <<ca_states, us_states, mx_states, us_counties, boundaries_multi,
                   source_vars, frame_vars, boundary_tables, ecoregion_tables,
                   intersections, result_vars>>
    /\ UNCHANGED <<queried, errors, prefetched>>

\* the admin_id and country_id columns; row["identifier"] raises KeyError,
\* and ends the run, when no source has brought the column
BoundaryLookup ==
    /\ pc = "boundary_lookup"
    /\ IF boundaries = <<>> \/ LookupColumns \subseteq Columns(boundaries)
       THEN /\ boundaries' = LookupAdmin(boundaries)
            /\ pc' = "boundary_partition"
       ELSE /\ boundaries' = boundaries
            /\ pc' = "aborted"
    /\ UNCHANGED <<crs, ca_states, us_states, mx_states, us_counties,
                   boundaries_multi, source_vars, frame_vars, boundary_tables,
                   ecoregion_tables, intersections, result_vars>>
    /\ prefetched' = AfterCalls("lookup_admin_ref", AdminCalls(boundaries))
    /\ UNCHANGED <<queried, errors>>

\* boundaries_multi is a copy without the Polygon rows, boundaries loses its
\* MultiPolygon rows; both get geom and lose geometry
BoundaryPartition ==
    /\ pc = "boundary_partition"
    /\ boundaries_multi' = PartitionRows(boundaries, "Polygon")
    /\ boundaries' = PartitionRows(boundaries, "MultiPolygon")
    /\ pc' = "boundary_load"
    /\ UNCHANGED <<crs, ca_states, us_states, mx_states, us_counties, source_vars,
                   frame_vars, boundary_tables, ecoregion_tables, intersections,
                   result_vars>>
    /\ UNCHANGED <<queried, errors, prefetched>>

\* boundaries.to_sql("boundaries_p", ...), then boundaries_multi.to_sql(
\* "boundaries_m", ...); a refused insert raises and ends the run
BoundaryLoad ==
    /\ pc = "boundary_load"
    /\ IF ~Droppable(intersections)
       THEN /\ UNCHANGED boundary_tables
            /\ pc' = "aborted"
       ELSE /\ boundaries_p' = to_sql(boundaries, FALSE, "Polygon")
            /\ IF Accepts(boundaries, "Polygon")
               THEN /\ boundaries_m' = to_sql(boundaries_multi, FALSE, "MultiPolygon")
                    /\ pc' = IF Accepts(boundaries_multi, "MultiPolygon")
                             THEN "get_source_data" ELSE "aborted"
               ELSE /\ boundaries_m' = boundaries_m
                    /\ pc' = "aborted"
    /\ UNCHANGED <<crs, boundary_vars, source_vars, frame_vars, ecoregion_tables,
                   intersections, result_vars>>
    /\ UNCHANGED <<queried, errors, prefetched>>

(***************************************************************************)
(* The ecoregions notebook, cell by cell.                                  *)
(***************************************************************************)
BoundaryRowCount ==
    Len(ca_states) + Len(us_states) + Len(mx_states) + Len(us_counties)

EcoregionSources == Range(EcoregionOrder)

\* get_source_data: the five get_source_df calls, then to_crs of each
GetSourceData ==
    /\ pc = "get_source_data"
    /\ \E rows \in SourceRows(EcoregionOrder,
                              [src \in EcoregionSources |-> EcoregionRows(src)],
                              MaxRows - BoundaryRowCount) :
            /\ na_er1' = FrameOf(rows, "na_er1")
            /\ na_er2' = FrameOf(rows, "na_er2")
            /\ na_er3' = FrameOf(rows, "na_er3")
            /\ conus_er3' = FrameOf(rows, "conus_er3")
            /\ conus_er4' = FrameOf(rows, "conus_er4")
    /\ crs' = SetCrs(EcoregionSources, "epsg:4326")
    /\ pc' = "clean_synth_df"
    /\ UNCHANGED <<boundary_vars, frame_vars, boundary_tables, ecoregion_tables,
                   intersections, result_vars>>
    /\ UNCHANGED <<queried, errors, prefetched>>

CleanSynthDf ==
    /\ pc = "clean_synth_df"
    /\ na_er1' = CleanFrame(na_er1, 1)
    /\ na_er2' = CleanFrame(na_er2, 2)
    /\ na_er3' = CleanFrame(na_er3, 3)
    /\ conus_er3' = CleanFrame(conus_er3, 4)
    /\ conus_er4' = CleanFrame(conus_er4, 5)
    /\ pc' = "combine_source_data"
    /\ UNCHANGED <<crs, boundary_vars, frame_vars, boundary_tables,
                   ecoregion_tables, intersections, result_vars>>
    /\ UNCHANGED <<queried, errors, prefetched>>

\* pd.concat of the five sources; ecoregions.crs = na_er1.crs
CombineSourceData ==
    /\ pc = "combine_source_data"
    /\ ecoregions' = concat(<<na_er1, na_er2, na_er3, conus_er3, conus_er4>>)
    /\ crs' = SetCrs({"ecoregions"}, crs["na_er1"])
    /\ pc' = "combine_geometries"
    /\ UNCHANGED <<boundary_vars, source_vars, dataset_multi, dataset_poly,
                   boundary_tables, ecoregion_tables, intersections, result_vars>>
    /\ UNCHANGED <<queried, errors, prefetched>>

CombineGeometries ==
    /\ pc = "combine_geometries"
    /\ ecoregions' = combine_geometries(ecoregions)
    /\ pc' = "prepare_wikidata_info"
    /\ UNCHANGED <<crs, boundary_vars, source_vars, dataset_multi, dataset_poly,
                   boundary_tables, ecoregion_tables, intersections, result_vars>>
    /\ UNCHANGED <<queried, errors, prefetched>>

\* (cache_source, which follows, writes a file that no later cell reads)
PrepareWikidataInfo ==
    /\ pc = "prepare_wikidata_info"
    /\ ecoregions' = prepare_wikidata_info(ecoregions)
    /\ pc' = "prep_source_for_pg"
    /\ UNCHANGED <<crs, boundary_vars, source_vars, dataset_multi, dataset_poly,
                   boundary_tables, ecoregion_tables, intersections, result_vars>>
    /\ queried' = queried \cup Queried(ecoregions)
    /\ prefetched' = AfterCalls("lookup_wd", Cardinality(EcoregionRequests(ecoregions)))
    /\ UNCHANGED errors

PrepSourceForPg ==
    /\ pc = "prep_source_for_pg"
    /\ ecoregions' = PrepObjects(ecoregions)[1]
    /\ dataset_multi' = prep_source_for_pg(ecoregions)[1]
    /\ dataset_poly' = prep_source_for_pg(ecoregions)[2]
    /\ pc' = "load_to_pg"
    /\ UNCHANGED <<crs, boundary_vars, source_vars, boundary_tables,
                   ecoregion_tables, intersections, result_vars>>
    /\ UNCHANGED <<queried, errors, prefetched>>

\* load_to_pg: dataset_poly.to_sql("ecoregions_p", ...), then
\* dataset_multi.to_sql("ecoregions_m", ...); a refused drop or insert raises
LoadToPg ==
    /\ pc = "load_to_pg"
    /\ IF ~Droppable(intersections)
       THEN /\ UNCHANGED ecoregion_tables
            /\ pc' = "aborted"
       ELSE /\ ecoregions_p' = to_sql(dataset_poly, TRUE, "Polygon")
            /\ IF Accepts(dataset_poly, "Polygon")
               THEN /\ ecoregions_m' = to_sql(dataset_multi, TRUE, "MultiPolygon")
                    /\ pc' = IF Accepts(dataset_multi, "MultiPolygon")
                             THEN "create_view" ELSE "aborted"
               ELSE /\ ecoregions_m' = ecoregions_m
                    /\ pc' = "aborted"
    /\ UNCHANGED <<crs, boundary_vars, source_vars, frame_vars, boundary_tables,
                   intersections, result_vars>>
    /\ UNCHANGED <<queried, errors, prefetched>>

\* the materialized view "intersections", built in the store from the four
\* tables as they are when it is created; the store refuses to create a
\* view that exists
CreateIntersectionsView ==
    /\ pc = "create_view"
    /\ intersections' =
          IF intersections # None THEN intersections
          ELSE Some(IntersectionsSQL(boundaries_m, boundaries_p,
                                     ecoregions_m, ecoregions_p))
    /\ pc' = "get_intersections"
    /\ UNCHANGED <<crs, boundary_vars, source_vars, frame_vars, boundary_tables,
                   ecoregion_tables, result_vars>>
    /\ UNCHANGED <<queried, errors, prefetched>>

\* a cell that leaves df_intersections as the session holds it
held_intersections(view) == df_intersections

\* get_intersections: SELECT * FROM intersections
get_intersections(view) == view[1]

\* df_intersections = get_intersections(): SELECT * FROM intersections
GetIntersections ==
    /\ pc = "get_intersections"
    /\ IF intersections = None
       THEN /\ df_intersections' = df_intersections
            /\ pc' = "aborted"
       ELSE /\ df_intersections' = get_intersections(intersections)
            /\ pc' = "recombine_ecoregions"
    /\ UNCHANGED <<crs, boundary_vars, source_vars, frame_vars, boundary_tables,
                   ecoregion_tables, intersections, df_ecoregions, ecoregions_pkl>>
    /\ UNCHANGED <<queried, errors, prefetched>>

\* df_ecoregions = recombine_ecoregions(); the query raises, and ends the
\* run, when a table lacks one of the seven columns
RecombineEcoregions ==
    /\ pc = "recombine_ecoregions"
    /\ IF Selectable(ecoregions_m, EcoregionColumns)
          /\ Selectable(ecoregions_p, EcoregionColumns)
       THEN /\ df_ecoregions' =
                  recombine_ecoregions(ecoregions_m, ecoregions_p, df_intersections)
            /\ pc' = "cache_final_output"
       ELSE /\ df_ecoregions' = df_ecoregions
            /\ pc' = "aborted"
    /\ UNCHANGED <<crs, boundary_vars, source_vars, frame_vars, boundary_tables,
                   ecoregion_tables, intersections, df_intersections,
                   ecoregions_pkl>>
    /\ UNCHANGED <<queried, errors, prefetched>>

\* cache_final_output(df_ecoregions): the records, pickled
CacheFinalOutput ==
    /\ pc = "cache_final_output"
    /\ ecoregions_pkl' = df_ecoregions
    /\ pc' = "done"
    /\ UNCHANGED <<crs, boundary_vars, source_vars, frame_vars, boundary_tables,
                   ecoregion_tables, intersections, df_intersections,
                   df_ecoregions>>
    /\ UNCHANGED <<queried, errors, prefetched>>

Next ==
    \/ BoundaryGetSources
    \/ BoundaryToCrs
    \/ BoundaryConcat
    \/ BoundaryLookup
    \/ BoundaryPartition
    \/ BoundaryLoad
    \/ GetSourceData
    \/ CleanSynthDf
    \/ CombineSourceData
    \/ CombineGeometries
    \/ PrepareWikidataInfo
    \/ PrepSourceForPg
    \/ LoadToPg
    \/ CreateIntersectionsView
    \/ GetIntersections
    \/ RecombineEcoregions
    \/ CacheFinalOutput

Spec == Init /\ [][Next]_vars

(***************************************************************************)
(* The first version of the ecoregions notebook, cell by cell.  It reads   *)
(* the boundaries from the store and runs on its own.                      *)
(***************************************************************************)
other_vars ==
    <<errors, boundary_vars, dataset_multi, dataset_poly, boundary_tables,
      ecoregion_tables, intersections, result_vars>>

InitFirst ==
    /\ pc = "first_sources"
    /\ crs = [f \in FrameNames |-> "unset"]
    /\ queried = {}
    /\ errors = {}
    /\ prefetched = [f \in LookupFunctions |-> 0]
    /\ ca_states = <<>> /\ us_states = <<>> /\ mx_states = <<>> /\ us_counties = <<>>
    /\ boundaries = <<>> /\ boundaries_multi = <<>>
    /\ na_er1 = <<>> /\ na_er2 = <<>> /\ na_er3 = <<>>
    /\ conus_er3 = <<>> /\ conus_er4 = <<>>
    /\ ecoregions = <<>> /\ dataset_multi = <<>> /\ dataset_poly = <<>>
    /\ boundaries_p = EmptyBag /\ boundaries_m = EmptyBag
    /\ ecoregions_p = EmptyBag /\ ecoregions_m = EmptyBag
    /\ intersections = None
    /\ df_intersections = EmptyBag /\ df_ecoregions = EmptyBag
    /\ ecoregions_pkl = EmptyBag

\* the five get_source_df calls
FirstGetSources ==
    /\ pc = "first_sources"
    /\ \E rows \in SourceRows(EcoregionOrder,
                              [src \in EcoregionSources |-> FirstEcoregionRows(src)],
                              MaxRows) :
            /\ na_er1' = FrameOf(rows, "na_er1")
            /\ na_er2' = FrameOf(rows, "na_er2")
            /\ na_er3' = FrameOf(rows, "na_er3")
            /\ conus_er3' = FrameOf(rows, "conus_er3")
            /\ conus_er4' = FrameOf(rows, "conus_er4")
    /\ crs' = SetCrs(EcoregionSources, "native")
    /\ pc' = "first_to_crs"
    /\ UNCHANGED <<prefetched, queried, ecoregions, other_vars>>

FirstToCrs ==
    /\ pc = "first_to_crs"
    /\ crs' = SetCrs(EcoregionSources, "epsg:4326")
    /\ pc' = "first_standardize"
    /\ UNCHANGED <<prefetched, queried, source_vars, ecoregions, other_vars>>

FirstStandardize ==
    /\ pc = "first_standardize"
    /\ na_er1' = FirstCleanFrame(na_er1, 1)
    /\ na_er2' = FirstCleanFrame(na_er2, 2)
    /\ na_er3' = FirstCleanFrame(na_er3, 3)
    /\ conus_er3' = FirstCleanFrame(conus_er3, 4)
    /\ conus_er4' = FirstCleanFrame(conus_er4, 5)
    /\ pc' = "first_concat"
    /\ UNCHANGED <<prefetched, crs, queried, ecoregions, other_vars>>

\* pd.concat of the five sources; ecoregions.crs = na_er1.crs
FirstConcat ==
    /\ pc = "first_concat"
    /\ ecoregions' = concat(<<na_er1, na_er2, na_er3, conus_er3, conus_er4>>)
    /\ crs' = SetCrs({"ecoregions"}, crs["na_er1"])
    /\ pc' = "first_dissolve"
    /\ UNCHANGED <<prefetched, queried, source_vars, other_vars>>

\* simplified_ecoregions = ecoregions.dissolve(by='contextual_identifier')
FirstDissolve ==
    /\ pc = "first_dissolve"
    /\ ecoregions' = dissolve(ecoregions, "contextual_identifier")
    /\ pc' = "first_lookup"
    /\ UNCHANGED <<prefetched, crs, queried, source_vars, other_vars>>

FirstLookup ==
    /\ pc = "first_lookup"
    /\ ecoregions' = FirstWikidataInfo(ecoregions)
    /\ queried' = queried \cup FirstQueried(ecoregions)
    /\ prefetched' = AfterCalls("lookup_wd", Len(ecoregions))
    /\ pc' = "first_partition"
    /\ UNCHANGED <<crs, source_vars, other_vars>>

NextFirst ==
    \/ FirstGetSources
    \/ FirstToCrs
    \/ FirstStandardize
    \/ FirstConcat
    \/ FirstDissolve
    \/ FirstLookup

SpecFirst == InitFirst /\ [][NextFirst]_vars

(***************************************************************************)
(* The ecoregions notebook run again, from load_to_pg on, in a session     *)
(* that ran the assembling cell before, against the store as earlier runs  *)
(* of the two notebooks left it.                                           *)
(***************************************************************************)
\* what an earlier run, or this one, read: at most one row
RerunRows(order, rows) == SourceRows(order, rows, 1)

Cleaned(rows) ==
    [l \in Levels |-> CleanFrame(FrameOf(rows, EcoregionOrder[l]), l)]

Dissolved(rows) ==
    combine_geometries(concat(<<Cleaned(rows)[1], Cleaned(rows)[2], Cleaned(rows)[3],
                                Cleaned(rows)[4], Cleaned(rows)[5]>>))

\* the two region tables a run on the rows leaves, ecoregions_p first
LoadedRegions(rows) ==
    LET datasets == prep_source_for_pg(prepare_wikidata_info(Dissolved(rows)))
    IN  <<to_sql(datasets[2], TRUE, "Polygon"),
          to_sql(datasets[1], TRUE, "MultiPolygon")>>

\* the boundaries a run of the boundaries notebook combines
CombinedBoundaries(rows) ==
    concat(<<FrameOf(rows, "ca_states"), FrameOf(rows, "us_states"),
             FrameOf(rows, "mx_states"), FrameOf(rows, "us_counties")>>)

\* the two boundary tables the run leaves, boundaries_p first
LoadedBoundaries(frame) ==
    <<to_sql(PartitionRows(frame, "MultiPolygon"), FALSE, "Polygon"),
      to_sql(PartitionRows(frame, "Polygon"), FALSE, "MultiPolygon")>>

\* the run of the boundaries notebook on the frame reaches its end
BoundariesLoaded(frame) ==
    /\ frame = <<>> \/ LookupColumns \subseteq Columns(frame)
    /\ Accepts(PartitionRows(frame, "MultiPolygon"), "Polygon")
    /\ Accepts(PartitionRows(frame, "Polygon"), "MultiPolygon")

InitRerun ==
    /\ pc = "load_to_pg"
    /\ crs = [f \in FrameNames |->
                IF f \in EcoregionSources \cup {"ecoregions"} THEN "epsg:4326"
                ELSE "unset"]
    /\ errors = {}
    /\ ca_states = <<>> /\ us_states = <<>> /\ mx_states = <<>> /\ us_counties = <<>>
    /\ boundaries = <<>> /\ boundaries_multi = <<>>
    /\ \E rows \in RerunRows(EcoregionOrder,
                             [src \in EcoregionSources |-> EcoregionRows(src)]) :
          /\ na_er1 = Cleaned(rows)[1] /\ na_er2 = Cleaned(rows)[2]
          /\ na_er3 = Cleaned(rows)[3] /\ conus_er3 = Cleaned(rows)[4]
          /\ conus_er4 = Cleaned(rows)[5]
          /\ queried = Queried(Dissolved(rows))
          /\ prefetched =
                [f \in LookupFunctions |->
                    IF f = "lookup_wd"
                    THEN Calls(0, Cardinality(EcoregionRequests(Dissolved(rows))))
                    ELSE 0]
          /\ ecoregions = prepare_wikidata_info(Dissolved(rows))
    /\ dataset_multi = prep_source_for_pg(ecoregions)[1]
    /\ dataset_poly = prep_source_for_pg(ecoregions)[2]
    /\ \E rows \in RerunRows(BoundaryOrder,
                             [src \in BoundarySources |-> BoundaryRows(src)]) :
          \E raised \in SUBSET BoundaryRequests(CombinedBoundaries(rows)) :
              /\ Cardinality(raised) <= MaxErrors
              /\ BoundariesLoaded(CombinedBoundaries(rows))
              /\ boundaries_p =
                    LoadedBoundaries(LookupAdminRemote(CombinedBoundaries(rows),
                                                       raised))[1]
              /\ boundaries_m =
                    LoadedBoundaries(LookupAdminRemote(CombinedBoundaries(rows),
                                                       raised))[2]
    /\ \E rows \in RerunRows(EcoregionOrder,
                             [src \in EcoregionSources |-> EcoregionRows(src)]) :
          /\ ecoregions_p = LoadedRegions(rows)[1]
          /\ ecoregions_m = LoadedRegions(rows)[2]
    /\ df_intersections =
          IntersectionsSQL(boundaries_m, boundaries_p, ecoregions_m, ecoregions_p)
    /\ intersections \in {None, Some(df_intersections)}
    /\ df_ecoregions =
          IF Selectable(ecoregions_m, EcoregionColumns)
             /\ Selectable(ecoregions_p, EcoregionColumns)
          THEN recombine_ecoregions(ecoregions_m, ecoregions_p, df_intersections)
          ELSE EmptyBag
    /\ ecoregions_pkl = df_ecoregions

NextRerun ==
    \/ LoadToPg
    \/ CreateIntersectionsView
    \/ GetIntersections
    \/ RecombineEcoregions
    \/ CacheFinalOutput

SpecRerun == InitRerun /\ [][NextRerun]_vars

(***************************************************************************)
(* The aggregation alone, on sources some of whose rows have no name.      *)
(***************************************************************************)
\* the rows of a source, and the same rows with the name left null
NamedOrNot(src) ==
    LET l == CHOOSE k \in Levels : EcoregionOrder[k] = src
    IN  EcoregionRows(src)
        \cup {SetCol(r, NameColumns[l], None) : r \in EcoregionRows(src)}

\* what the reads returned: at most two rows
GroupRows(order, rows) == SourceRows(order, rows, 2)

InitDissolve ==
    /\ pc = "combine_geometries"
    /\ crs = [f \in FrameNames |->
                IF f \in EcoregionSources \cup {"ecoregions"} THEN "epsg:4326"
                ELSE "unset"]
    /\ queried = {}
    /\ errors = {}
    /\ prefetched = [f \in LookupFunctions |-> 0]
    /\ ca_states = <<>> /\ us_states = <<>> /\ mx_states = <<>> /\ us_counties = <<>>
    /\ boundaries = <<>> /\ boundaries_multi = <<>>
    /\ \E rows \in GroupRows(EcoregionOrder,
                             [src \in EcoregionSources |-> NamedOrNot(src)]) :
          /\ na_er1 = Cleaned(rows)[1] /\ na_er2 = Cleaned(rows)[2]
          /\ na_er3 = Cleaned(rows)[3] /\ conus_er3 = Cleaned(rows)[4]
          /\ conus_er4 = Cleaned(rows)[5]
    /\ ecoregions = concat(<<na_er1, na_er2, na_er3, conus_er3, conus_er4>>)
    /\ dataset_multi = <<>> /\ dataset_poly = <<>>
    /\ boundaries_p = EmptyBag /\ boundaries_m = EmptyBag
    /\ ecoregions_p = EmptyBag /\ ecoregions_m = EmptyBag
    /\ intersections = None
    /\ df_intersections = EmptyBag /\ df_ecoregions = EmptyBag
    /\ ecoregions_pkl = EmptyBag

NextDissolve == CombineGeometries

SpecDissolve == InitDissolve /\ [][NextDissolve]_vars

(***************************************************************************)
(* The two notebooks up to the resolution of the ecoregions, with remote   *)
(* queries that may raise.                                                 *)
(***************************************************************************)
\* the sets of calls that may raise, given those that already have
Raising(requests) ==
    {raised \in SUBSET requests : Cardinality(errors \cup raised) <= MaxErrors}

BoundaryLookupRemote ==
    /\ pc = "boundary_lookup"
    /\ IF boundaries = <<>> \/ LookupColumns \subseteq Columns(boundaries)
       THEN \E raised \in Raising(BoundaryRequests(boundaries)) :
                /\ boundaries' = LookupAdminRemote(boundaries, raised)
                /\ errors' = errors \cup raised
                /\ pc' = "boundary_partition"
       ELSE /\ boundaries' = boundaries
            /\ errors' = errors
            /\ pc' = "aborted"
    /\ prefetched' = AfterCalls("lookup_admin_ref", AdminCalls(boundaries))
    /\ UNCHANGED <<crs, queried, ca_states, us_states, mx_states, us_counties,
                   boundaries_multi, source_vars, frame_vars, boundary_tables,
                   ecoregion_tables, intersections, result_vars>>

PrepareWikidataInfoRemote ==
    /\ pc = "prepare_wikidata_info"
    /\ \E raised \in Raising(EcoregionRequests(ecoregions)) :
            /\ ecoregions' = prepare_wikidata_info_remote(ecoregions, raised)
            /\ errors' = errors \cup raised
    /\ queried' = queried \cup Queried(ecoregions)
    /\ prefetched' = AfterCalls("lookup_wd", Cardinality(EcoregionRequests(ecoregions)))
    /\ pc' = "prep_source_for_pg"
    /\ UNCHANGED <<crs, boundary_vars, source_vars, dataset_multi, dataset_poly,
                   boundary_tables, ecoregion_tables, intersections, result_vars>>

NextRemote ==
    \/ BoundaryGetSources
    \/ BoundaryToCrs
    \/ BoundaryConcat
    \/ BoundaryLookupRemote
    \/ BoundaryPartition
    \/ BoundaryLoad
    \/ GetSourceData
    \/ CleanSynthDf
    \/ CombineSourceData
    \/ CombineGeometries
    \/ PrepareWikidataInfoRemote

SpecRemote == Init /\ [][NextRemote]_vars

(***************************************************************************)
(* The vocabulary of the properties.  A geometry denotes a set of points   *)
(* of the strip, in half units: cell c covers 2c-2 .. 2c, an isolated      *)
(* point sits at the centre 2c-1 of its cell.                              *)
(***************************************************************************)
PointSet(g) ==
    UNION {(2 * c - 2)..(2 * c) : c \in g.cells} \cup {2 * c - 1 : c \in g.pts}

Meet(g, h) == PointSet(g) \cap PointSet(h) # {}

\* the rows of `frame` that carry the index i
Carrying(frame, i) == {j \in DOMAIN frame : frame[j]["index"] = i}

\* every row of the input is in exactly one of the two subsets, and each
\* subset holds the one geometry type it is named for
InOneSubset(indices, poly, multi) ==
    /\ \A i \in indices :
          Cardinality(Carrying(poly, i)) + Cardinality(Carrying(multi, i)) = 1
    /\ \A j \in DOMAIN poly : poly[j]["geom"].data.type = "Polygon"
    /\ \A j \in DOMAIN multi : multi[j]["geom"].data.type = "MultiPolygon"

SourceFrames == <<na_er1, na_er2, na_er3, conus_er3, conus_er4>>

\* the rows the ecoregion sources hold, by level and position
SourcePositions == {<<l, i>> \in Levels \X (1..MaxRows) : i <= Len(SourceFrames[l])}

SourceRow(p) == SourceFrames[p[1]][p[2]]

\* the rows of the view, none while it does not exist
ViewRows == IF intersections = None THEN EmptyBag ELSE intersections[1]

StoredBoundaries == BagToSet(boundaries_m) \cup BagToSet(boundaries_p)

StoredRegions == BagToSet(ecoregions_m) \cup BagToSet(ecoregions_p)

\* the row of the view for a boundary row and a region row
Triple(b, e) ==
    [boundary_name |-> b["name"], admin_id |-> b["admin_id"],
     country_id |-> b["country_id"],
     contextual_identifier |-> e["contextual_identifier"]]

Assembled == {"cache_final_output", "done"}

(***************************************************************************)
(* The properties.                                                         *)
(***************************************************************************)
\* C1: after the geometry partitioner has run, on the boundaries and on the
\* ecoregions, every row of its input is in exactly one of the two subsets,
\* never in both and never in neither, and the polygon subset holds only
\* Polygon rows, the multipolygon subset only MultiPolygon rows.
C1_PartitionExact ==
    /\ pc = "boundary_load" =>
          InOneSubset(0..(BoundaryRowCount - 1), boundaries, boundaries_multi)
    /\ pc = "load_to_pg" =>
          InOneSubset({ecoregions[j]["index"] : j \in DOMAIN ecoregions},
                      dataset_poly, dataset_multi)

\* C2: after combine_geometries has run on the combined collection, every
\* contextual_identifier of the input is on exactly one output row, and the
\* output has as many rows as the input has distinct identifiers.
C2_OneRowPerKey ==
    pc = "prepare_wikidata_info" =>
        LET keys == {SourceRow(p)["contextual_identifier"] : p \in SourcePositions}
        IN  /\ Len(ecoregions) = Cardinality(keys)
            /\ \A k \in keys :
                  Cardinality({j \in DOMAIN ecoregions :
                                  ecoregions[j]["contextual_identifier"] = k}) = 1

\* a run in which the aggregator merged two rows of one key and kept another
C2_GroupMerged ==
    /\ pc = "prepare_wikidata_info"
    /\ Cardinality(SourcePositions) = 3
    /\ Len(ecoregions) = 2

\* C3: the intersection result holds a row for a boundary row and a region
\* row, over the four pairings of the polygon and multipolygon tables, if
\* and only if their geometries share a point, and holds no row twice.
C3_IntersectionsExact ==
    pc \in {"get_intersections", "recombine_ecoregions"} \cup Assembled =>
        LET result == IF pc = "get_intersections" THEN ViewRows
                      ELSE df_intersections
            meeting == {p \in StoredBoundaries \X StoredRegions :
                           Meet(p[1]["geom"], p[2]["geom"])}
        IN  /\ BagToSet(result) = {Triple(p[1], p[2]) : p \in meeting}
            /\ \A t \in BagToSet(result) : CopiesIn(t, result) = 1

\* a polygon boundary and a multipolygon boundary of one name and one id
\* meet the same region: two of the four SELECTs return the same row
C3_SameRowTwice ==
    /\ pc = "recombine_ecoregions"
    /\ \E b1 \in BagToSet(boundaries_p), b2 \in BagToSet(boundaries_m),
          e \in StoredRegions :
            /\ Triple(b1, e) = Triple(b2, e)
            /\ Meet(b1["geom"], e["geom"])
            /\ Meet(b2["geom"], e["geom"])

\* C4: on every record recombine_ecoregions emits, admin_intersects holds
\* each admin id of the triples of the record's contextual_identifier once,
\* and nothing else; country_intersects likewise for the country ids.
C4_IntersectLists ==
    pc \in Assembled =>
        \A r \in BagToSet(df_ecoregions) :
            LET hits == {t \in BagToSet(df_intersections) :
                            t.contextual_identifier = r["contextual_identifier"]}
            IN  /\ r["admin_intersects"] = SetToBag({t.admin_id : t \in hits})
                /\ r["country_intersects"] = SetToBag({t.country_id : t \in hits})

\* a region met by two boundaries of different admin ids in one country,
\* so that the country id comes twice before the duplicates are removed
C4_CountryTwice ==
    /\ pc \in Assembled
    /\ \E r \in BagToSet(df_ecoregions) :
          \E t, u \in BagToSet(df_intersections) :
              /\ t.contextual_identifier = r["contextual_identifier"]
              /\ u.contextual_identifier = r["contextual_identifier"]
              /\ t.admin_id # u.admin_id
              /\ t.country_id = u.country_id

\* the region lies wholly inside one stored boundary, whose admin id is
\* `id`, and touches no other
InsideOnly(g, id) ==
    \E b \in StoredBoundaries :
        /\ b["admin_id"] = Some(id)
        /\ PointSet(g) \subseteq PointSet(b["geom"])
        /\ \A c \in StoredBoundaries : Meet(g, c["geom"]) => c["admin_id"] = Some(id)

Apart(g) == \A b \in StoredBoundaries : ~Meet(g, b["geom"])

\* C5: end to end, every aggregated region is emitted with the field
\* admin_intersects; a region wholly inside a single boundary of id Q100
\* has admin_intersects = [Q100], a region disjoint from every boundary has
\* the empty list.
C5_EndToEnd ==
    pc \in Assembled =>
        \A j \in DOMAIN ecoregions :
            \E r \in BagToSet(df_ecoregions) :
                /\ r["contextual_identifier"] = ecoregions[j]["contextual_identifier"]
                /\ "admin_intersects" \in DOMAIN r
                /\ InsideOnly(ecoregions[j]["geometry"], <<"Q100">>) =>
                      r["admin_intersects"] = SetToBag({Some(<<"Q100">>)})
                /\ Apart(ecoregions[j]["geometry"]) =>
                      r["admin_intersects"] = EmptyBag

\* the scenario: one region inside the boundary Q100, one apart from it
C5_TwoRegions ==
    /\ pc = "done"
    /\ StoredBoundaries # {}
    /\ \E i, j \in DOMAIN ecoregions :
          /\ InsideOnly(ecoregions[i]["geometry"], <<"Q100">>)
          /\ Apart(ecoregions[j]["geometry"])

FlatColumns ==
    {"contextual_identifier", "wikidata_id", "source", "common_name",
     "part_of_identifiers", "x", "y", "admin_intersects", "country_intersects"}

\* C6: recombine_ecoregions emits exactly one record for every record of
\* the aggregator, none missing and none twice, no record carries a
\* geometry: its fields are the identifiers, the name, the source,
\* part_of_identifiers, x, y and the two intersect lists; these records are
\* what cache_final_output writes.
C6_OneFlatRecord ==
    /\ pc \in Assembled =>
          /\ \A j \in DOMAIN ecoregions :
                \E r \in BagToSet(df_ecoregions) :
                    /\ r["contextual_identifier"] = ecoregions[j]["contextual_identifier"]
                    /\ CopiesIn(r, df_ecoregions) = 1
                    /\ \A q \in BagToSet(df_ecoregions) :
                          q["contextual_identifier"] = r["contextual_identifier"] => q = r
          /\ \A r \in BagToSet(df_ecoregions) :
                /\ DOMAIN r = FlatColumns
                /\ \E j \in DOMAIN ecoregions :
                      \A c \in {"contextual_identifier", "wikidata_id", "source",
                                "common_name", "x", "y"} : r[c] = ecoregions[j][c]
    /\ pc = "done" => ecoregions_pkl = df_ecoregions

\* a polygon region and a multipolygon region, each emitted and written
C6_BothTables ==
    /\ pc = "done"
    /\ ecoregions_p # EmptyBag
    /\ ecoregions_m # EmptyBag
    /\ Cardinality(BagToSet(ecoregions_pkl)) = 2

\* the ancestor identifiers of a source row of level l, in order
Ancestors(row, l) == [k \in 1..(l - 1) |-> TagCode(row, k)]

\* the text of part_of_identifiers clean_synth_df gives the row, parsed as
\* recombine_ecoregions parses it, is the sequence of its ancestors
RoundTrip(row, l) ==
    ParsePartOf(CleanRow(row, l)["part_of_identifiers"]) = Some(Ancestors(row, l))

\* on every record emitted, part_of_identifiers is the stored text parsed,
\* and None where no text is stored
ParsedAsStored ==
    \A r \in BagToSet(df_ecoregions) :
        \E j \in DOMAIN ecoregions :
            /\ ecoregions[j]["contextual_identifier"] = r["contextual_identifier"]
            /\ r["part_of_identifiers"] =
                  IF ecoregions[j]["part_of_identifiers"] = None THEN None
                  ELSE Some(Split(ecoregions[j]["part_of_identifiers"][1], ";"))

\* C7, as stated: the ancestor identifiers of any row, written with ";"
\* between them and parsed by the assembler, come back as the same
\* sequence; None is parsed to None.
C7_RoundTrip ==
    /\ pc = "clean_synth_df" =>
          \A p \in SourcePositions : p[1] > 1 => RoundTrip(SourceRow(p), p[1])
    /\ pc \in Assembled => ParsedAsStored

\* C7, amended: the sequence comes back provided no ancestor identifier
\* holds a ";" itself (the identifiers are written unescaped); None is
\* parsed to None.
C7_RoundTripUnlessDelimiter ==
    /\ pc = "clean_synth_df" =>
          \A p \in SourcePositions :
              (/\ p[1] > 1
               /\ \A k \in 1..(p[1] - 1) : ";" \notin Range(TagCode(SourceRow(p), k)))
              => RoundTrip(SourceRow(p), p[1])
    /\ pc \in Assembled => ParsedAsStored

\* a record with its three ancestors parsed, and one with None
C7_ParsedAndNone ==
    /\ pc = "done"
    /\ \E r \in BagToSet(df_ecoregions) :
          /\ r["part_of_identifiers"] # None
          /\ Len(r["part_of_identifiers"][1]) = 3
    /\ \E r \in BagToSet(df_ecoregions) : r["part_of_identifiers"] = None

\* C8: the aggregator applied to its own output, which has one row per
\* contextual_identifier, gives that output back: the same keys, the same
\* geometry and the same attributes for each key.
C8_DissolveIdempotent ==
    pc = "prepare_wikidata_info" => combine_geometries(ecoregions) = ecoregions

\* the output of a run in which rows were merged into a multipolygon
C8_Dissolved ==
    /\ pc = "prepare_wikidata_info"
    /\ Len(ecoregions) = 2
    /\ Cardinality(SourcePositions) = 3
    /\ \E j \in DOMAIN ecoregions :
          geom_type(ecoregions[j]["geometry"]) = "MultiPolygon"

\* C9: with the two geometries handed to the predicate in the other order
\* (regions as the first collection, boundaries as the second) the same
\* pairs of boundary id and region id are selected.
C9_Symmetric ==
    pc \in {"get_intersections", "recombine_ecoregions"} \cup Assembled =>
        LET swapped == {p \in StoredRegions \X StoredBoundaries :
                           ST_Intersects(p[1]["geom"], p[2]["geom"])}
        IN  {<<t.admin_id, t.contextual_identifier>> : t \in BagToSet(ViewRows)}
            = {<<p[2]["admin_id"], p[1]["contextual_identifier"]>> : p \in swapped}

\* a boundary that meets a region lying strictly inside it
C9_RegionInsideBoundary ==
    /\ pc = "get_intersections"
    /\ \E t \in BagToSet(ViewRows) : TRUE
    /\ \E b \in StoredBoundaries, e \in StoredRegions :
          /\ PointSet(e["geom"]) \subseteq PointSet(b["geom"])
          /\ PointSet(e["geom"]) # PointSet(b["geom"])

\* the source rows of the key: several, polygons, no two sharing a point
DisjointPolygons(group) ==
    /\ Cardinality(group) >= 2
    /\ \A p \in group : geom_type(SourceRow(p)["geometry"]) = "Polygon"
    /\ \A p, q \in group :
          p # q => ~Meet(SourceRow(p)["geometry"], SourceRow(q)["geometry"])

GroupOf(k) == {p \in SourcePositions : SourceRow(p)["contextual_identifier"] = k}

\* the row is a multipolygon that covers exactly the rows of the group, and
\* its x and y are the centroid of all its cells together
UnionOf(row, group) ==
    LET cells == UNION {SourceRow(p)["geometry"].cells : p \in group}
        n == Cardinality(cells)
    IN  /\ geom_type(row["geometry"]) = "MultiPolygon"
        /\ \A p \in group :
              PointSet(SourceRow(p)["geometry"]) \subseteq PointSet(row["geometry"])
        /\ PointSet(row["geometry"])
              = UNION {PointSet(SourceRow(p)["geometry"]) : p \in group}
        /\ row["x"][1][1] * 2 * n
              = row["x"][1][2] * SumOf([c \in cells |-> 2 * c - 1], cells)
        /\ row["y"][1][1] * 2 = row["y"][1][2]

\* C10: for a contextual_identifier whose input rows are several polygons,
\* no two sharing a point, the aggregated collection holds exactly one row,
\* a MultiPolygon containing every input polygon, and its x and y are the
\* centroid of that union, not of one input row.
C10_DisjointUnion ==
    pc = "prep_source_for_pg" =>
        \A k \in {SourceRow(p)["contextual_identifier"] : p \in SourcePositions} :
            DisjointPolygons(GroupOf(k)) =>
                /\ Cardinality({j \in DOMAIN ecoregions :
                                   ecoregions[j]["contextual_identifier"] = k}) = 1
                /\ \A j \in DOMAIN ecoregions :
                      ecoregions[j]["contextual_identifier"] = k =>
                          UnionOf(ecoregions[j], GroupOf(k))

\* a key with two polygons that lie apart, aggregated and given its point
C10_TwoPolygonsApart ==
    /\ pc = "prep_source_for_pg"
    /\ \E p \in SourcePositions :
          DisjointPolygons(GroupOf(SourceRow(p)["contextual_identifier"]))


(***************************************************************************)
(* Keys and hierarchy.                                                     *)
(***************************************************************************)
\* the cell that standardizes the five sources runs next
Normalizing == pc \in {"clean_synth_df", "first_standardize"}

\* every row of the standardized dataset of level l is keyed by the tag of
\* level l, ':' and the code the row had for that level
KeyedByOwnTag(before, after, l) ==
    /\ Len(after) = Len(before)
    /\ \A i \in DOMAIN before :
            after[i]["contextual_identifier"] = Some(TagCode(before[i], l))

\* no row of the one frame has the key of a row of the other
KeysApart(f, g) ==
    \A i \in DOMAIN f, j \in DOMAIN g :
        f[i]["contextual_identifier"] # g[j]["contextual_identifier"]

\* C11: when the five sources are standardized, every record's
\* contextual_identifier is the tag of its own level, ':' and its native code,
\* and records of different levels never share a contextual_identifier.
C11_OwnTagAndCode ==
    [][Normalizing =>
        /\ KeyedByOwnTag(na_er1, na_er1', 1)
        /\ KeyedByOwnTag(na_er2, na_er2', 2)
        /\ KeyedByOwnTag(na_er3, na_er3', 3)
        /\ KeyedByOwnTag(conus_er3, conus_er3', 4)
        /\ KeyedByOwnTag(conus_er4, conus_er4', 5)
        /\ \A l, m \in Levels :
                l # m => KeysApart(<<na_er1', na_er2', na_er3', conus_er3', conus_er4'>>[l],
                                   <<na_er1', na_er2', na_er3', conus_er3', conus_er4'>>[m])]_vars


\* the level of the source a record names
LevelOf(r) == CHOOSE l \in Levels : r["source"] = Some(<<Sources[l]>>)

\* the entry starts with the tag of level k and ':'
Tagged(entry, k) == Len(entry) >= 2 /\ entry[1] = LevelTags[k] /\ entry[2] = ":"

\* every entry of the parsed part_of_identifiers of the record carries the
\* tag of a level below the record's own
LowerLevelsOnly(r) ==
    r["part_of_identifiers"] # None =>
        \A i \in DOMAIN r["part_of_identifiers"][1] :
            \E k \in 1..(LevelOf(r) - 1) : Tagged(r["part_of_identifiers"][1][i], k)

Standardized == <<na_er1', na_er2', na_er3', conus_er3', conus_er4'>>

\* the dataset of level k holds a unit with the code the row gives for level k
ParentExists(row, k) ==
    \E j \in DOMAIN SourceFrames[k] :
        SourceFrames[k][j][LevelTags[k]] = row[LevelTags[k]]

\* the text is the key of some standardized record
IsKey(text) ==
    \E m \in Levels : \E j \in DOMAIN Standardized[m] :
        Standardized[m][j]["contextual_identifier"] = Some(text)

\* C13: when the five sources are standardized, for every row and every
\* ancestor level whose dataset holds the unit the row names, the entry of
\* the row's part_of_identifiers for that level is the contextual_identifier
\* of some record (the keys of the records emitted are those of the
\* standardized rows).
C13_ParentsAreRecords ==
    [][Normalizing =>
        \A l \in Levels : \A i \in DOMAIN SourceFrames[l] : \A k \in 1..(l - 1) :
            ParentExists(SourceFrames[l][i], k) =>
                LET entries == Split(Standardized[l][i]["part_of_identifiers"][1], ";")
                IN  k <= Len(entries) /\ IsKey(entries[k])]_vars


\* the records emitted for the top level
TopLevel == {r \in BagToSet(df_ecoregions) : r["source"] = Some(<<Sources[1]>>)}

\* C14, as stated: on every level I record emitted, part_of_identifiers is
\* the empty sequence.
C14_TopLevelEmpty ==
    pc \in Assembled => \A r \in TopLevel : r["part_of_identifiers"] = Some(<<>>)

\* C14, amended: on every level I record emitted, part_of_identifiers is
\* None (clean_synth_df writes no such column for level I, and the assembler
\* passes None through unsplit).
C14_TopLevelNone ==
    pc \in Assembled => \A r \in TopLevel : r["part_of_identifiers"] = None

\* a level I record is emitted, beside a record that has ancestors
C14_TopLevelEmitted ==
    /\ pc \in Assembled
    /\ TopLevel # {}
    /\ \E r \in BagToSet(df_ecoregions) : r \notin TopLevel


(***************************************************************************)
(* Resolution of external identifiers.                                     *)
(***************************************************************************)
\* the record is of one of the three North American levels
Unresolved(r) == r["source"] \notin Resolved

\* C15: lookup_wd is called only for records of the two CONUS sources; for
\* a record of a North American level no call is made, and its wikidata_id
\* is None in the frame and in the records emitted.
C15_OnlyConusResolved ==
    /\ \A q \in queried : q.source \in Resolved
    /\ \A i \in DOMAIN ecoregions :
          ("wikidata_id" \in DOMAIN ecoregions[i] /\ Unresolved(ecoregions[i]))
          => ecoregions[i]["wikidata_id"] = None
    /\ pc \in Assembled =>
          \A r \in BagToSet(df_ecoregions) : Unresolved(r) => r["wikidata_id"] = None


(***************************************************************************)
(* The combiner and the order of the cells.                                *)
(***************************************************************************)
\* the combined frame has one row for every row of the frames, in order,
\* with every value the row had
RowsKept(combined, frames) ==
    LET all == Concat(frames)
    IN  /\ Len(combined) = Len(all)
        /\ \A i \in DOMAIN all : \A c \in DOMAIN all[i] : combined[i][c] = all[i][c]

\* C16: the concatenated frame has as many rows as its inputs together,
\* every input row in it with its values, for the four boundary datasets and
\* the five ecoregion datasets, and carries the common reference system.
C16_AllRowsKept ==
    /\ pc = "boundary_lookup" =>
          /\ RowsKept(boundaries, <<ca_states, us_states, mx_states, us_counties>>)
          /\ Len(boundaries) = BoundaryRowCount
          /\ crs["boundaries"] = "epsg:4326"
    /\ pc = "combine_geometries" =>
          /\ RowsKept(ecoregions, SourceFrames)
          /\ Len(ecoregions) = Len(na_er1) + Len(na_er2) + Len(na_er3)
                                   + Len(conus_er3) + Len(conus_er4)
          /\ crs["ecoregions"] = "epsg:4326"

\* two equal rows of one ecoregion source are both in the combined frame,
\* after a boundary row went through the boundaries concatenation
C16_EqualRowsKept ==
    /\ pc = "combine_geometries"
    /\ BoundaryRowCount = 1
    /\ Len(ecoregions) = 2
    /\ Len(conus_er3) = 2
    /\ conus_er3[1] = conus_er3[2]


\* every row of the frame has the column
HasColumn(frame, col) == \A i \in DOMAIN frame : col \in DOMAIN frame[i]

\* the frame is in the schema that the standardizing cell gives it
Normalized(frame) == HasColumn(frame, "contextual_identifier")

Reprojected(names) == \A f \in names : crs[f] = "epsg:4326"

\* no two rows of the frame have the same key
KeysUnique(frame) ==
    \A i, j \in DOMAIN frame :
        frame[i]["contextual_identifier"] = frame[j]["contextual_identifier"] => i = j

\* what a stage has produced exists only once the stages before it have run
\* on every dataset: what each stage leaves behind is there, on all rows
StagesInOrder ==
    \* boundaries: unifier, combiner, resolver, partitioner, load
    /\ boundaries # <<>> => Reprojected(BoundarySources \cup {"boundaries"})
    /\ \A f \in {boundaries, boundaries_multi} :
          (\E i \in DOMAIN f : "geom" \in DOMAIN f[i])
          => HasColumn(f, "geom") /\ HasColumn(f, "admin_id")
             /\ HasColumn(f, "country_id")
    /\ boundaries_p # EmptyBag => HasColumn(boundaries, "geom") /\ boundaries # <<>>
    /\ boundaries_m # EmptyBag =>
          HasColumn(boundaries_multi, "geom") /\ boundaries_multi # <<>>
    \* ecoregions: all five sources are standardized together
    /\ (\E l \in Levels : SourceFrames[l] # <<>> /\ Normalized(SourceFrames[l]))
          => \A l \in Levels : Normalized(SourceFrames[l])
    \* combiner after the standardization and the unifier
    /\ ecoregions # <<>> =>
          /\ \A l \in Levels : Normalized(SourceFrames[l])
          /\ Reprojected(EcoregionSources \cup {"ecoregions"})
    \* resolver after the aggregator
    /\ (\E i \in DOMAIN ecoregions : "wikidata_id" \in DOMAIN ecoregions[i])
          => HasColumn(ecoregions, "wikidata_id") /\ KeysUnique(ecoregions)
    \* partitioner after the resolver
    /\ \A f \in {dataset_multi, dataset_poly} :
          f # <<>> => /\ HasColumn(f, "geom") /\ HasColumn(f, "wikidata_id")
                      /\ HasColumn(ecoregions, "wikidata_id")
    \* load after the partitioner
    /\ ecoregions_p # EmptyBag => dataset_poly # <<>>
    /\ ecoregions_m # EmptyBag => dataset_multi # <<>>
    \* the view after the loads of both notebooks, the assembler after the view
    /\ ViewRows # EmptyBag =>
          /\ boundaries_p # EmptyBag \/ boundaries_m # EmptyBag
          /\ ecoregions_p # EmptyBag \/ ecoregions_m # EmptyBag
    /\ df_intersections # EmptyBag => df_intersections = ViewRows
    /\ df_ecoregions # EmptyBag =>
          /\ pc \in Assembled
          /\ ecoregions_p # EmptyBag \/ ecoregions_m # EmptyBag

\* the rows of each boundary source are in the common schema from the read on
BoundariesNormalized ==
    /\ \A i \in DOMAIN ca_states : DOMAIN ca_states[i] = BoundaryColumns["ca_states"]
    /\ \A i \in DOMAIN us_states : DOMAIN us_states[i] = BoundaryColumns["us_states"]
    /\ \A i \in DOMAIN mx_states : DOMAIN mx_states[i] = BoundaryColumns["mx_states"]
    /\ \A i \in DOMAIN us_counties :
          DOMAIN us_counties[i] = BoundaryColumns["us_counties"]

\* C17, as stated: the stages run in the order normalizer, unifier,
\* combiner, aggregator, resolver, partitioner, load, intersection,
\* assembler, each on all datasets before the next; in particular a dataset
\* that has been reprojected has had its schema normalized.
C17_NormalizedThenReprojected ==
    /\ StagesInOrder
    /\ BoundariesNormalized
    /\ \A l \in Levels :
          Reprojected({EcoregionOrder[l]}) => Normalized(SourceFrames[l])

\* C17, amended: the same order of stages, except that the ecoregion
\* sources are reprojected first (inside get_source_data) and standardized
\* after (clean_synth_df): a standardized ecoregion dataset has been
\* reprojected.  The boundary sources are in the common schema from the
\* read on, before their reprojection.
C17_ReprojectedThenStandardized ==
    /\ StagesInOrder
    /\ BoundariesNormalized
    /\ \A l \in Levels :
          (SourceFrames[l] # <<>> /\ Normalized(SourceFrames[l]))
          => Reprojected({EcoregionOrder[l]})
    /\ pc = "clean_synth_df" =>
          /\ Reprojected(EcoregionSources)
          /\ \A l \in Levels : SourceFrames[l] # <<>> => ~Normalized(SourceFrames[l])

\* a run in which every stage had rows to work on has ended
C17_AllStagesRan ==
    /\ pc = "done"
    /\ boundaries_p # EmptyBag
    /\ ecoregions_p # EmptyBag
    /\ df_intersections # EmptyBag
    /\ ecoregions_pkl # EmptyBag
    /\ \E r \in BagToSet(ecoregions_pkl) : r["wikidata_id"] # None


(***************************************************************************)
(* The partitioner.                                                        *)
(***************************************************************************)
\* the row of the subset is the input row of the same index: the same
\* attributes with the same values, geometry replaced by geom, the WKT of
\* that input row's geometry
SameButGeom(out, in) ==
    /\ out["index"] = in["index"]
    /\ DOMAIN out = ((DOMAIN in) \ {"geometry"}) \cup {"geom"}
    /\ \A c \in (DOMAIN in) \ {"geometry"} : out[c] = in[c]
    /\ out["geom"] = WKTElement(wkt(in["geometry"]), 4326)

\* every row of the subset comes so from a row of the input
Untouched(subset, input) ==
    \A j \in DOMAIN subset : \E i \in DOMAIN input : SameButGeom(subset[j], input[i])

\* C18: when the boundaries cell or prep_source_for_pg partitions a frame,
\* every row of either subset has every attribute of its input row
\* unchanged, and its geom is the WKT of that input row's geometry.
C18_AttributesUntouched ==
    [][/\ pc = "boundary_partition" =>
             Untouched(boundaries', boundaries) /\ Untouched(boundaries_multi', boundaries)
       /\ pc = "prep_source_for_pg" =>
             Untouched(dataset_poly', ecoregions) /\ Untouched(dataset_multi', ecoregions)]_vars

\* both notebooks have partitioned rows: a boundary row with its resolved
\* ids, and an ecoregion row in each subset, one of them resolved
C18_RowsPartitioned ==
    /\ pc = "load_to_pg"
    /\ \E j \in DOMAIN boundaries_multi : boundaries_multi[j]["country_id"] # None
    /\ dataset_poly # <<>>
    /\ dataset_multi # <<>>
    /\ \E j \in DOMAIN dataset_poly : dataset_poly[j]["wikidata_id"] # None


\* C19: a row whose geometry is neither a Polygon nor a MultiPolygon is in
\* neither subset the partitioner gives: every row of the four subsets is of
\* one of the two types.
C19_OthersSkipped ==
    \A f \in {boundaries, boundaries_multi, dataset_poly, dataset_multi} :
        \A j \in DOMAIN f :
            "geom" \in DOMAIN f[j] =>
                f[j]["geom"].data.type \in {"Polygon", "MultiPolygon"}


(***************************************************************************)
(* Remote errors.                                                          *)
(***************************************************************************)
\* the value the column of the row has is a miss where the query of its
\* call raised, and the answer of the lookup everywhere else
AnsweredOrMissed(row, request, answer) ==
    /\ request.column \in DOMAIN row
    /\ row[request.column] = IF request \in errors THEN None ELSE answer

LookedUp(function) ==
    IF function = "lookup_admin_ref"
    THEN pc \notin {"boundary_sources", "boundary_to_crs", "boundary_concat",
                    "boundary_lookup"}
    ELSE pc \in {"prep_source_for_pg", "load_to_pg", "create_view",
                 "get_intersections", "recombine_ecoregions",
                 "cache_final_output", "done"}

\* C21: the cache of a lookup function is filled by one bulk query, at the
\* first call, and no later call of the run (the second pass over the
\* boundary rows included) runs another: at most one bulk query has run, and
\* exactly one once the lookup cell has made a call.
C21_PrefetchedOnce ==
    /\ \A f \in LookupFunctions : prefetched[f] <= 1
    /\ (LookedUp("lookup_admin_ref") /\ pc # "aborted" /\ BoundaryRowCount > 0)
          => prefetched["lookup_admin_ref"] = 1
    /\ (LookedUp("lookup_wd") /\ queried # {}) => prefetched["lookup_wd"] = 1

\* both passes ran over two boundary rows, and lookup_wd was called for a
\* CONUS ecoregion
C21_ManyCallsOneQuery ==
    /\ pc = "prep_source_for_pg"
    /\ BoundaryRowCount = 2
    /\ queried # {}
    /\ prefetched = [f \in LookupFunctions |-> 1]


(***************************************************************************)
(* The boundaries: schema and country.                                     *)
(***************************************************************************)
BoundaryFrames ==
    [ca_states |-> ca_states, us_states |-> us_states, mx_states |-> mx_states,
     us_counties |-> us_counties]

\* the rename map of the call names a column that the call does not retain
RenamesAbsent(src) ==
    \E r \in RenameColumns[src] : r[1] \notin FilterToColumns[src]

\* C22: a get_source_df call whose rename map names a column that is absent
\* from the retained columns signals an error instead of ignoring it: the
\* call returns no frame, so the source holds no rows.
C22_MismatchSignalled ==
    \A src \in BoundarySources :
        RenamesAbsent(src) => BoundaryFrames[src] = <<>>


Countries == {Some(<<"US">>), Some(<<"CA">>), Some(<<"MX">>)}

HasCountry(r) == "country" \in DOMAIN r /\ r["country"] \in Countries

\* C23: every row of the combined boundaries, of the two subsets of the
\* partition and of the two stored tables has its country populated with one
\* of US, CA, MX.
C23_CountryPopulated ==
    /\ \A i \in DOMAIN boundaries : HasCountry(boundaries[i])
    /\ \A i \in DOMAIN boundaries_multi : HasCountry(boundaries_multi[i])
    /\ \A r \in StoredBoundaries : HasCountry(r)

\* a stored boundary of each country, one of them without an identifier,
\* and a boundary in each subset of the partition
C23_CountryWithoutIdentifier ==
    /\ \A c \in Countries : \E r \in StoredBoundaries : r["country"] = c
    /\ \E r \in StoredBoundaries : r["identifier"] = None /\ HasCountry(r)
    /\ boundaries # <<>> /\ boundaries_multi # <<>>


(***************************************************************************)
(* The records from the aggregator to the emitted record set.              *)
(***************************************************************************)
FrameIds(frame) == {frame[i]["contextual_identifier"] : i \in DOMAIN frame}

RowIds(rows) == {r["contextual_identifier"] : r \in rows}

\* C24: no later stage deletes or creates a record: the resolver keeps the
\* contextual identifiers of the aggregator's output, and the two subsets
\* together, the two stored tables together, the records assembled (when the
\* query returns) and the records emitted hold exactly those identifiers.
C24_RecordsKept ==
    [][/\ pc = "prepare_wikidata_info" =>
              FrameIds(ecoregions') = FrameIds(ecoregions)
       /\ pc = "prep_source_for_pg" =>
              /\ ecoregions' = ecoregions
              /\ FrameIds(dataset_multi') \cup FrameIds(dataset_poly')
                    = FrameIds(ecoregions)
       /\ pc = "load_to_pg" =>
              /\ ecoregions' = ecoregions
              /\ RowIds(StoredRegions') = FrameIds(ecoregions)
       /\ pc = "recombine_ecoregions" /\ pc' = "cache_final_output" =>
              /\ ecoregions' = ecoregions
              /\ RowIds(BagToSet(df_ecoregions')) = FrameIds(ecoregions)
       /\ pc = "cache_final_output" =>
              /\ ecoregions' = ecoregions
              /\ RowIds(BagToSet(ecoregions_pkl')) = FrameIds(ecoregions)]_vars

\* records of two identifiers, one in each subset and each table, all emitted
C24_TwoRecordsEmitted ==
    /\ pc = "done"
    /\ Cardinality(FrameIds(ecoregions)) = 2
    /\ dataset_multi # <<>> /\ dataset_poly # <<>>
    /\ RowIds(BagToSet(ecoregions_pkl)) = FrameIds(ecoregions)
    /\ RowIds(StoredRegions) = FrameIds(ecoregions)


(***************************************************************************)
(* Unresolved boundaries in the intersect lists.                           *)
(***************************************************************************)
EmittedFor(e) ==
    {r \in BagToSet(df_ecoregions) :
        r["contextual_identifier"] = e["contextual_identifier"]}

\* C25: a stored boundary whose admin_id (country_id) is absent and which
\* intersects a stored region leaves an absent entry in the admin_intersects
\* (country_intersects) of the record emitted for that region.
C25_UnresolvedKept ==
    pc \in Assembled =>
        \A b \in StoredBoundaries, e \in StoredRegions :
            Meet(b["geom"], e["geom"]) =>
                /\ EmittedFor(e) # {}
                /\ \A r \in EmittedFor(e) :
                      /\ b["admin_id"] = None => BagIn(None, r["admin_intersects"])
                      /\ b["country_id"] = None =>
                            BagIn(None, r["country_intersects"])

\* a region loaded by this run and emitted with an absent entry in each of
\* its two lists, for a boundary neither of whose ids was resolved
C25_AbsentInBothLists ==
    /\ pc = "done"
    /\ \E r \in BagToSet(ecoregions_pkl) :
          /\ r["contextual_identifier"] \in FrameIds(ecoregions)
          /\ BagIn(None, r["admin_intersects"])
          /\ BagIn(None, r["country_intersects"])


(***************************************************************************)
(* The attributes the aggregator keeps.                                    *)
(***************************************************************************)
Attributes == {"source", "common_name", "part_of_identifiers"}

\* the positions of the rows of the key, in concatenation order
RowsOfKey(frame, key) == {i \in DOMAIN frame : frame[i]["contextual_identifier"] = key}

Lowest(S) == CHOOSE i \in S : \A j \in S : i <= j

\* C26: the attributes of a dissolved record (source, common_name,
\* part_of_identifiers) are those of the first row of its
\* contextual_identifier, in concatenation order.
C26_FirstRowKept ==
    [][pc = "combine_geometries" =>
          \A j \in DOMAIN ecoregions' :
              LET first == Lowest(RowsOfKey(ecoregions,
                                          ecoregions'[j]["contextual_identifier"]))
              IN  \A c \in Attributes \cap Columns(ecoregions) :
                      ecoregions'[j][c] = ecoregions[first][c]]_vars

\* C26, amended: each attribute of a dissolved record is that of the first
\* row of its contextual_identifier, in concatenation order, on which the
\* attribute is not null, and null when it is null on all of them.
C26_FirstNonNullKept ==
    [][pc = "combine_geometries" =>
          \A j \in DOMAIN ecoregions' :
              LET group == RowsOfKey(ecoregions, ecoregions'[j]["contextual_identifier"])
              IN  \A c \in Attributes \cap Columns(ecoregions) :
                      LET valued == {i \in group : ecoregions[i][c] # None}
                      IN  ecoregions'[j][c] =
                              IF valued = {} THEN None
                              ELSE ecoregions[Lowest(valued)][c]]_vars

\* two rows of one key that name different ancestors, dissolved into a
\* record that has the ancestors of the first
C26_OneAncestorSequence ==
    /\ pc = "prepare_wikidata_info"
    /\ Len(ecoregions) = 1
    /\ Len(conus_er3) = 2
    /\ conus_er3[1]["part_of_identifiers"] # conus_er3[2]["part_of_identifiers"]
    /\ ecoregions[1]["part_of_identifiers"] = conus_er3[1]["part_of_identifiers"]


(***************************************************************************)
(* The triples and the loads.                                              *)
(***************************************************************************)
\* the triples of the boundaries in the store and the regions of this run
TriplesOfRun ==
    {Triple(b, ecoregions[j]) :
        <<b, j>> \in {p \in StoredBoundaries \X DOMAIN ecoregions :
                        Meet(p[1]["geom"], ecoregions[p[2]]["geometry"])}}

\* C27: the triples get_intersections returns are those of the region tables
\* that load_to_pg wrote in this run and of the boundary tables, never those
\* of tables an earlier load wrote.
C27_TriplesOfThisLoad ==
    pc \in {"recombine_ecoregions"} \cup Assembled =>
        /\ ecoregions_p = to_sql(dataset_poly, TRUE, "Polygon")
        /\ ecoregions_m = to_sql(dataset_multi, TRUE, "MultiPolygon")
        /\ BagToSet(df_intersections) = TriplesOfRun

\* get_intersections has returned triples in a session whose earlier
\* records, of other regions that met a boundary, are still held
C27_EarlierLoadReplaced ==
    /\ pc = "recombine_ecoregions"
    /\ df_intersections # EmptyBag
    /\ RowIds(BagToSet(df_ecoregions)) \cap FrameIds(ecoregions) = {}
    /\ \E r \in BagToSet(df_ecoregions) : r["admin_intersects"] # EmptyBag


\* the list of the column that the triples give the record
ListFrom(triples, r, column) ==
    SetToBag({t[column] : t \in {u \in BagToSet(triples) :
                 u.contextual_identifier = r["contextual_identifier"]}})

\* C28: when recombine_ecoregions is invoked df_intersections holds what
\* get_intersections read from the view in this run, recombine_ecoregions
\* leaves it as it is, and the two lists of every record are those of that
\* one set of triples.
C28_OneTripleSet ==
    [][pc = "recombine_ecoregions" =>
          /\ df_intersections = ViewRows
          /\ df_intersections' = df_intersections
          /\ pc' = "cache_final_output" =>
                \A r \in BagToSet(df_ecoregions') :
                    /\ r["admin_intersects"] =
                          ListFrom(df_intersections, r, "admin_id")
                    /\ r["country_intersects"] =
                          ListFrom(df_intersections, r, "country_id")]_vars

\* records assembled from the triples read in this run, one of them with
\* an entry in each list
C28_ListsOfOneRead ==
    /\ pc = "cache_final_output"
    /\ df_intersections = ViewRows
    /\ \E r \in BagToSet(df_ecoregions) :
          /\ r["admin_intersects"] = ListFrom(df_intersections, r, "admin_id")
          /\ r["admin_intersects"] # EmptyBag
          /\ r["country_intersects"] # EmptyBag


(***************************************************************************)
(* The regions the assembler reads.                                        *)
(***************************************************************************)
\* the record has the seven columns of the stored row, its ancestors split
EmittedFrom(r, e) ==
    \A c \in EcoregionColumns :
        r[c] = IF c = "part_of_identifiers" THEN ParsePartOf(e[c]) ELSE e[c]

IndicesOf(frame, type) ==
    {frame[i]["index"] : i \in {j \in DOMAIN frame :
                                  geom_type(frame[j]["geometry"]) = type}}

\* C30: prep_source_for_pg leaves its input as it was, rows, values and
\* geometry column, and what it does to one subset shows in neither the
\* other subset nor the input: each subset keeps the rows that were dropped
\* from the other, and only the subsets lose the geometry column.
C30_InputUntouched ==
    [][pc = "prep_source_for_pg" =>
          /\ ecoregions' = ecoregions
          /\ \A i \in DOMAIN ecoregions' : "geometry" \in DOMAIN ecoregions'[i]
          /\ dataset_multi' = PartitionRows(ecoregions, "Polygon")
          /\ dataset_poly' = PartitionRows(ecoregions, "MultiPolygon")
          /\ IndicesOf(ecoregions, "Polygon") =
                {dataset_poly'[j]["index"] : j \in DOMAIN dataset_poly'}
          /\ IndicesOf(ecoregions, "MultiPolygon") =
                {dataset_multi'[j]["index"] : j \in DOMAIN dataset_multi'}]_vars

\* the partitioner has run on a polygon and a multipolygon: the input has
\* both rows with their geometry, each subset has one row without it
C30_InputOfTwoTypes ==
    /\ pc = "load_to_pg"
    /\ Len(ecoregions) = 2
    /\ Len(dataset_multi) = 1 /\ Len(dataset_poly) = 1
    /\ \A i \in DOMAIN ecoregions : "geometry" \in DOMAIN ecoregions[i]
    /\ "geometry" \notin DOMAIN dataset_multi[1] \cup DOMAIN dataset_poly[1]

====
